---- MODULE Spec2Model ----
(***************************************************************************)
(* The mesh store of the CAD engine (frontend/src/cad/core/store.ts) and   *)
(* the geometry utilities it calls (frontend/src/cad/core/utils.ts).       *)
(*                                                                         *)
(* Numbers.  The program computes in IEEE doubles.  The model computes in  *)
(* exact rationals <<n, d>> (d > 0, lowest terms), so that the tolerance   *)
(* tests of the utilities (0.0001, 0.01, the 2% endpoint margin) are       *)
(* decided as the code decides them on inputs away from rounding error.    *)
(* A test "sqrt(x) < c" is evaluated as "x < c*c".                         *)
(*                                                                         *)
(* Collections.  A JavaScript Map iterates in insertion order; each of     *)
(* vertices, edges and faces is a sequence of records in that order.       *)
(* Ids.  generateId() returns a fresh UUID; the model draws <<kind, n>>    *)
(* from a per-kind counter, which is fresh for the same reason.            *)
(***************************************************************************)
EXTENDS Integers, Sequences, FiniteSets, TLC

\* "no id" (null / undefined where the code expects an id); an optional value of
\* another kind is <<>> when absent and <<x>> when present
NULL == <<"null", 0>>

(* ------------------------------ rationals ------------------------------ *)

Abs(x) == IF x < 0 THEN -x ELSE x

RECURSIVE Gcd(_, _)
Gcd(a, b) == IF b = 0 THEN a ELSE Gcd(b, a % b)

Rat(n, d) ==
  LET g == Gcd(Abs(n), Abs(d))
      s == IF d < 0 THEN -1 ELSE 1
  IN  <<(s * n) \div g, (s * d) \div g>>

RInt(n) == <<n, 1>>
\* the arithmetic divides by common factors before it multiplies
RAdd(a, b) ==
  IF a[1] = 0 THEN b
  ELSE IF b[1] = 0 THEN a
  ELSE LET g == Gcd(a[2], b[2])
       IN  Rat(a[1] * (b[2] \div g) + b[1] * (a[2] \div g), (a[2] \div g) * b[2])
RNeg(a) == <<-a[1], a[2]>>
RSub(a, b) == RAdd(a, RNeg(b))
RMul(a, b) ==
  IF a[1] = 0 \/ b[1] = 0 THEN <<0, 1>>
  ELSE LET g1 == Gcd(Abs(a[1]), b[2])
           g2 == Gcd(Abs(b[1]), a[2])
       IN  <<(a[1] \div g1) * (b[1] \div g2), (a[2] \div g2) * (b[2] \div g1)>>
RInv(a) == IF a[1] < 0 THEN <<-a[2], -a[1]>> ELSE <<a[2], a[1]>>
RDiv(a, b) == RMul(a, RInv(b))
RAbs(a) == <<Abs(a[1]), a[2]>>
RLt(a, b) ==
  LET g == Gcd(a[2], b[2]) IN a[1] * (b[2] \div g) < b[1] * (a[2] \div g)
RLe(a, b) ==
  LET g == Gcd(a[2], b[2]) IN a[1] * (b[2] \div g) <= b[1] * (a[2] \div g)
\* a < 1/K and a > 1/K for a positive integer K, without forming a[1] * K
RLtInv(a, K) == a[1] <= (a[2] - 1) \div K
RGtInv(a, K) == a[1] > a[2] \div K

(* ------------------------------- vectors ------------------------------- *)

Vec(x, y, z) == <<RInt(x), RInt(y), RInt(z)>>
VSub(p, q) == <<RSub(p[1], q[1]), RSub(p[2], q[2]), RSub(p[3], q[3])>>
VAdd(p, q) == <<RAdd(p[1], q[1]), RAdd(p[2], q[2]), RAdd(p[3], q[3])>>
VScale(t, v) == <<RMul(t, v[1]), RMul(t, v[2]), RMul(t, v[3])>>
Dot(u, v) == RAdd(RAdd(RMul(u[1], v[1]), RMul(u[2], v[2])), RMul(u[3], v[3]))
CrossProduct(u, v) ==
  << RSub(RMul(u[2], v[3]), RMul(u[3], v[2])),
     RSub(RMul(u[3], v[1]), RMul(u[1], v[3])),
     RSub(RMul(u[1], v[2]), RMul(u[2], v[1])) >>
Len2(v) == Dot(v, v)

Lcm(a, b) == (a \div Gcd(a, b)) * b

\* v / |v| for a non-zero v.  The unit vector along v is represented by the
\* primitive integer vector pointing the same way (two unit vectors are equal
\* exactly when these are), e.g. (0,-200,0)/200 is <<0,-1,0>>.
Normalized(v) ==
  LET l == Lcm(Lcm(v[1][2], v[2][2]), v[3][2])
      x == v[1][1] * (l \div v[1][2])
      y == v[2][1] * (l \div v[2][2])
      z == v[3][1] * (l \div v[3][2])
      g == Gcd(Gcd(Abs(x), Abs(y)), Abs(z))
  IN  <<x \div g, y \div g, z \div g>>

(* ------------------------- geometry utilities -------------------------- *)

\* utils.ts calculateFaceNormal: Newell's method, (0,1,0) when degenerate.
calculateFaceNormal(ps) ==
  LET n == Len(ps)
      nxt(i) == ps[(i % n) + 1]
      RECURSIVE Acc(_)
      Acc(i) ==
        IF i > n THEN <<RInt(0), RInt(0), RInt(0)>>
        ELSE LET c == ps[i]
                 x == nxt(i)
             IN  VAdd(<< RMul(RSub(c[2], x[2]), RAdd(c[3], x[3])),
                         RMul(RSub(c[3], x[3]), RAdd(c[1], x[1])),
                         RMul(RSub(c[1], x[1]), RAdd(c[2], x[2])) >>,
                      Acc(i + 1))
      v == Acc(1)
  IN  IF RLtInv(Len2(v), 100000000) THEN <<0, 1, 0>> ELSE Normalized(v)

\* a test that takes only triangles for flat
OnlyTriangles(ps) == Len(ps) < 4
\* a test without the distance check
AlwaysCoplanar(ps) == TRUE

\* utils.ts areVerticesCoplanar with the default tolerance 0.01.
areVerticesCoplanar(ps) ==
  IF Len(ps) < 4 THEN TRUE
  ELSE LET p0 == ps[1]
           normal == CrossProduct(VSub(ps[2], p0), VSub(ps[3], p0))
           nl2 == Len2(normal)
       IN  IF RLtInv(nl2, 100000000) THEN TRUE
           ELSE \A i \in 4..Len(ps) :
                  LET dot == Dot(VSub(ps[i], p0), normal)
                  IN  ~ RGtInv(RDiv(RMul(dot, dot), nl2), 10000)

\* utils.ts lineSegmentIntersection with the default tolerance 0.01: <<point>>,
\* or <<>> for null.  t and s are computed by the code's formulas.
lineSegmentIntersection(p1, p2, p3, p4) ==
  LET d1 == VSub(p2, p1)
      d2 == VSub(p4, p3)
      w == VSub(p3, p1)
      cross == CrossProduct(d1, d2)
      cl2 == Len2(cross)
  IN  IF RLtInv(cl2, 100000000) THEN <<>>
      ELSE
      LET cc == Dot(w, cross)
      IN  IF RGtInv(RDiv(RMul(cc, cc), cl2), 10000) THEN <<>>
      ELSE
      LET d1Len2 == Len2(d1)
          d2Len2 == Len2(d2)
          d1d2 == Dot(d1, d2)
          wd1 == Dot(w, d1)
          wd2 == Dot(w, d2)
          denom == RSub(RMul(d1Len2, d2Len2), RMul(d1d2, d1d2))
      IN  IF RLtInv(RAbs(denom), 10000) THEN <<>>
      ELSE
      LET t == RDiv(RSub(RMul(d1d2, wd2), RMul(d2Len2, wd1)), denom)
          s == RDiv(RSub(RMul(d1Len2, wd2), RMul(d1d2, wd1)), denom)
      IN  IF RLe(t, <<1, 50>>) \/ RLe(<<49, 50>>, t) THEN <<>>
          ELSE IF RLe(s, <<1, 50>>) \/ RLe(<<49, 50>>, s) THEN <<>>
          ELSE
          LET intersection == VAdd(p1, VScale(t, d1))
              point2 == VAdd(p3, VScale(s, d2))
          IN  IF RGtInv(Len2(VSub(intersection, point2)), 10000) THEN <<>>
              ELSE <<intersection>>

(* ------------------------- insertion-ordered maps ---------------------- *)

Range(seq) == {seq[i] : i \in DOMAIN seq}
Includes(seq, x) == \E i \in DOMAIN seq : seq[i] = x
Ids(map) == {map[i].id : i \in DOMAIN map}
Has(map, id) == \E i \in DOMAIN map : map[i].id = id
Get(map, id) == map[CHOOSE i \in DOMAIN map : map[i].id = id]
\* Map.set: an existing key keeps its place, a new key goes last
Put(map, rec) ==
  IF Has(map, rec.id)
  THEN [i \in DOMAIN map |-> IF map[i].id = rec.id THEN rec ELSE map[i]]
  ELSE Append(map, rec)
Delete(map, id) == SelectSeq(map, LAMBDA r : r.id # id)
Without(seq, x) == SelectSeq(seq, LAMBDA e : e # x)

VId(n) == <<"v", n>>
EId(n) == <<"e", n>>
FId(n) == <<"f", n>>

\* the other endpoint, as "edge.vertices[0] === id ? edge.vertices[1] : edge.vertices[0]"
OtherEnd(edge, id) ==
  IF edge.vertices[1] = id THEN edge.vertices[2] ELSE edge.vertices[1]

Joins(e, a, b) ==
  \/ e.vertices[1] = a /\ e.vertices[2] = b
  \/ e.vertices[1] = b /\ e.vertices[2] = a

\* a lookup that matches an edge only as <<a, b>>, not as <<b, a>>
FindEdgeInOrder(es, a, b) ==
  IF \E i \in DOMAIN es : es[i].vertices = <<a, b>>
  THEN es[CHOOSE i \in DOMAIN es :
            es[i].vertices = <<a, b>> /\ \A j \in 1..(i - 1) : es[j].vertices # <<a, b>>].id
  ELSE NULL

\* Array.from(state.edges.values()).find(e => joins a and b): the id of the first
\* such edge, or NULL
FindEdge(es, a, b) ==
  IF \E i \in DOMAIN es : Joins(es[i], a, b)
  THEN es[CHOOSE i \in DOMAIN es :
            Joins(es[i], a, b) /\ \A j \in 1..(i - 1) : ~ Joins(es[j], a, b)].id
  ELSE NULL

PositionOf(vs, id) == IF Has(vs, id) THEN Get(vs, id).position ELSE Vec(0, 0, 0)

(* --------------------------- cycle detection --------------------------- *)

maxCycleLength == 8

\* the lists of a list, joined in order
RECURSIVE Flatten(_, _)
Flatten(lists, i) ==
  IF i > Len(lists) THEN <<>> ELSE lists[i] \o Flatten(lists, i + 1)

\* store.ts findAllCycles, the dfs closure: the cycles pushed by the call, in the
\* order pushed; visitedInPath holds the vertices of path.
RECURSIVE dfs(_, _, _, _, _, _)
dfs(vs, es, v2Id, newEdgeId, currentId, path) ==
  IF Len(path) > maxCycleLength THEN <<>>
  ELSE IF ~ Has(vs, currentId) THEN <<>>
  ELSE
  LET vedges == Get(vs, currentId).edges
      \* the pass of the loop for the k-th edge of the vertex
      pass(k) ==
        IF vedges[k] = newEdgeId THEN <<>>
        ELSE IF ~ Has(es, vedges[k]) THEN <<>>
        ELSE
        LET neighborId == OtherEnd(Get(es, vedges[k]), currentId)
        IN  IF neighborId = v2Id /\ Len(path) >= 2 THEN <<path>>
            ELSE IF ~ Includes(path, neighborId)
            THEN dfs(vs, es, v2Id, newEdgeId, neighborId, Append(path, neighborId))
            ELSE <<>>
  IN  Flatten([k \in DOMAIN vedges |-> pass(k)], 1)

\* store.ts findAllCycles, the filter: no chord between cycle[i] and cycle[j]
IsMinimalCycle(vs, es, newEdgeId, cycle) ==
  \A i \in 1..Len(cycle) : \A j \in (i + 2)..Len(cycle) :
    \/ i = 1 /\ j = Len(cycle)
    \/ ~ Has(vs, cycle[i])
    \/ LET vedges == Get(vs, cycle[i]).edges
       IN  \A x \in DOMAIN vedges :
             \/ vedges[x] = newEdgeId
             \/ ~ Has(es, vedges[x])
             \/ OtherEnd(Get(es, vedges[x]), cycle[i]) # cycle[j]

findAllCycles(vs, es, v1Id, v2Id, newEdgeId) ==
  SelectSeq(dfs(vs, es, v2Id, newEdgeId, v1Id, <<v1Id>>),
            LAMBDA c : IsMinimalCycle(vs, es, newEdgeId, c))

\* the edge ids found for the consecutive pairs of the cycle, from its i-th pair on
RECURSIVE CycleEdges(_, _, _)
CycleEdges(es, cycle, i) ==
  IF i > Len(cycle) THEN <<>>
  ELSE LET e == FindEdge(es, cycle[i], cycle[(i % Len(cycle)) + 1])
       IN  (IF e = NULL THEN <<>> ELSE <<e>>) \o CycleEdges(es, cycle, i + 1)

\* edge.faces.push(faceId) for each id of the list in turn: an edge gets the
\* face id once for each time the list names it
PushFace(es, ids, faceId) ==
  [i \in DOMAIN es |->
     [es[i] EXCEPT !.faces =
        @ \o [k \in 1..Cardinality({j \in DOMAIN ids : ids[j] = es[i].id}) |-> faceId]]]

\* store.ts detectAndCreateFaces, one pass of the loop over cyclePaths: whether the
\* pass reaches "Create the face", and the store after the pass
CycleMakesFace(st, v2Id, cyclePath) ==
  IF Len(cyclePath) < 2 THEN FALSE
  ELSE
  LET cycle == Append(cyclePath, v2Id)
      vertexPositions == [i \in DOMAIN cycle |-> PositionOf(st.vertices, cycle[i])]
  IN  IF ~ areVerticesCoplanar(vertexPositions) THEN FALSE
      ELSE
      LET faceEdges == CycleEdges(st.edges, cycle, 1)
      IN  IF Len(faceEdges) # Len(cycle) THEN FALSE
          ELSE ~ \E i \in DOMAIN st.faces :
                   /\ Len(st.faces[i].edges) = Len(faceEdges)
                   /\ \A e \in Range(st.faces[i].edges) : e \in Range(faceEdges)

FaceForCycle(st, v2Id, cyclePath) ==
  LET cycle == Append(cyclePath, v2Id)
      vertexPositions == [i \in DOMAIN cycle |-> PositionOf(st.vertices, cycle[i])]
      faceEdges == CycleEdges(st.edges, cycle, 1)
      faceId == FId(st.ctr.f)
      made == CycleMakesFace(st, v2Id, cyclePath)
  IN  [st EXCEPT
         !.faces = IF made
                   THEN Append(@, [id |-> faceId, edges |-> faceEdges,
                                   normal |-> calculateFaceNormal(vertexPositions)])
                   ELSE @,
         !.edges = IF made THEN PushFace(@, faceEdges, faceId) ELSE @,
         !.ctr.f = IF made THEN @ + 1 ELSE @]

RECURSIVE FacesForCycles(_, _, _)
FacesForCycles(st, v2Id, cyclePaths) ==
  IF cyclePaths = <<>> THEN st
  ELSE FacesForCycles(FaceForCycle(st, v2Id, Head(cyclePaths)), v2Id, Tail(cyclePaths))

detectAndCreateFaces(st, v1Id, v2Id, edgeId) ==
  FacesForCycles(st, v2Id, findAllCycles(st.vertices, st.edges, v1Id, v2Id, edgeId))

(* ------------------------------ the store ------------------------------ *)
(* The operations are written as functions of st = [vertices, edges, faces, *)
(* ctr], ctr being the next unused number of each kind of id.  An id that   *)
(* is generated and never stored does not advance its counter.              *)

EmptyStore ==
  [vertices |-> <<>>, edges |-> <<>>, faces |-> <<>>,
   ctr |-> [v |-> 1, e |-> 1, f |-> 1]]

\* vertex.edges.push(edgeId), vertex.edges = vertex.edges.filter(e => e !== edgeId)
PushEdge(vs, vId, edgeId) ==
  IF Has(vs, vId)
  THEN Put(vs, [Get(vs, vId) EXCEPT !.edges = Append(@, edgeId)])
  ELSE vs
\* a detach that leaves the edge id in the vertex's list
KeepEdge(vs, vId, edgeId) == vs
DropEdge(vs, vId, edgeId) ==
  IF Has(vs, vId)
  THEN Put(vs, [Get(vs, vId) EXCEPT !.edges = Without(@, edgeId)])
  ELSE vs

addVertex(st, position) ==
  [st EXCEPT !.vertices = Append(@, [id |-> VId(st.ctr.v), position |-> position,
                                     edges |-> <<>>]),
             !.ctr.v = @ + 1]

\* a move that stores a new vertex record under the id, with no edges
ReplaceVertex(st, id, position) ==
  IF Has(st.vertices, id)
  THEN [st EXCEPT !.vertices = Put(@, [id |-> id, position |-> position, edges |-> <<>>])]
  ELSE st

updateVertexPosition(st, id, position) ==
  IF Has(st.vertices, id)
  THEN [st EXCEPT !.vertices = Put(@, [Get(@, id) EXCEPT !.position = position])]
  ELSE st

\* utils.ts distance, squared
Distance2(p1, p2) == Len2(VSub(p2, p1))

\* a scan that lets a vertex as close as the closest so far take its place
CloserOrEqual(vs, position, threshold) ==
  {i \in DOMAIN vs :
     /\ RLt(Distance2(position, vs[i].position), RMul(threshold, threshold))
     /\ \A j \in 1..(i - 1) : RLe(Distance2(position, vs[i].position),
                                   Distance2(position, vs[j].position))}

\* store.ts findNearbyVertex: the scan over the vertices in Map order.  closestDist
\* starts at the threshold and is lowered to dist whenever dist < closestDist, so
\* before vertex i it is the least of the threshold and the earlier distances:
\* the test succeeds at i when dist is below the threshold and below every
\* earlier distance, and closestId is the vertex of the last success.  Distances
\* are compared by their squares (the threshold is not negative).
Closer(vs, position, threshold) ==
  {i \in DOMAIN vs :
     /\ RLt(Distance2(position, vs[i].position), RMul(threshold, threshold))
     /\ \A j \in 1..(i - 1) : RLt(Distance2(position, vs[i].position),
                                   Distance2(position, vs[j].position))}

findNearbyVertex(vs, position, threshold) ==
  IF Closer(vs, position, threshold) = {} THEN NULL
  ELSE vs[CHOOSE i \in Closer(vs, position, threshold) :
            \A j \in Closer(vs, position, threshold) : j <= i].id

\* a loop that deletes no connected edge
DeleteNone(st, id, vedges, k) == st

\* store.ts deleteVertex, the loop over vertex.edges from the k-th entry on
RECURSIVE DeleteConnected(_, _, _, _)
DeleteConnected(st, id, vedges, k) ==
  IF k > Len(vedges) THEN st
  ELSE
  LET edgeId == vedges[k]
  IN  IF ~ Has(st.edges, edgeId) THEN DeleteConnected(st, id, vedges, k + 1)
      ELSE
      LET otherVertexId == OtherEnd(Get(st.edges, edgeId), id)
      IN  DeleteConnected(
            [st EXCEPT !.vertices = DropEdge(@, otherVertexId, edgeId),
                       !.edges = Delete(@, edgeId)],
            id, vedges, k + 1)

\* a deletion of the vertex that leaves its edges in the store
DeleteVertexOnly(st, id) ==
  IF ~ Has(st.vertices, id) THEN st
  ELSE [st EXCEPT !.vertices = Delete(@, id)]

deleteVertex(st, id) ==
  IF ~ Has(st.vertices, id) THEN st
  ELSE LET st1 == DeleteConnected(st, id, Get(st.vertices, id).edges, 1)
       IN  [st1 EXCEPT !.vertices = Delete(@, id)]

\* a deletion of the edge that detaches it from its first endpoint only
DeleteEdgeOneEnd(st, id) ==
  IF ~ Has(st.edges, id) THEN st
  ELSE LET edge == Get(st.edges, id)
       IN  [st EXCEPT !.vertices = DropEdge(@, edge.vertices[1], id),
                      !.edges = Delete(@, id)]

deleteEdge(st, id) ==
  IF ~ Has(st.edges, id) THEN st
  ELSE LET edge == Get(st.edges, id)
       IN  [st EXCEPT
              !.vertices = DropEdge(DropEdge(@, edge.vertices[1], id),
                                    edge.vertices[2], id),
              !.edges = Delete(@, id)]

(* ---- addEdge: intersections ---- *)

\* store.ts addEdge 455-481: the intersections with the edges of the store, in
\* Map order.  t is kept as its square (t >= 0, the sort only compares).
Intersection(hit, edgeId, p1, p2) ==
  IF hit = <<>> THEN <<>>
  ELSE <<[point |-> hit[1], edgeId |-> edgeId,
          t2 |-> RDiv(Len2(VSub(hit[1], p1)), Len2(VSub(p2, p1)))]>>
Intersections(st, p1, p2) ==
  LET found ==
        [i \in DOMAIN st.edges |->
           IF ~ Has(st.vertices, st.edges[i].vertices[1])
              \/ ~ Has(st.vertices, st.edges[i].vertices[2])
           THEN <<>>
           ELSE Intersection(
                  lineSegmentIntersection(p1, p2,
                    Get(st.vertices, st.edges[i].vertices[1]).position,
                    Get(st.vertices, st.edges[i].vertices[2]).position),
                  st.edges[i].id, p1, p2)]
      hits == SelectSeq(found, LAMBDA h : Len(h) > 0)
  IN  [k \in DOMAIN hits |-> hits[k][1]]

\* intersections left in the order found
Unsorted(xs) == xs

\* intersections.sort((a, b) => a.t - b.t): stable, ascending
RECURSIVE SortByT(_)
SortByT(xs) ==
  IF xs = <<>> THEN <<>>
  ELSE LET n == Len(xs)
           sorted == SortByT(SubSeq(xs, 1, n - 1))
           x == xs[n]
           k == Cardinality({j \in DOMAIN sorted : RLe(sorted[j].t2, x.t2)})
       IN  SubSeq(sorted, 1, k) \o <<x>> \o SubSeq(sorted, k + 1, Len(sorted))

\* store.ts addEdge 501-543: split the existing edge at the intersection vertex
SplitEdge(st, edgeId, intersectionVertexId) ==
  IF ~ Has(st.edges, edgeId) THEN st
  ELSE
  LET edge == Get(st.edges, edgeId)
      oldV1Id == edge.vertices[1]
      oldV2Id == edge.vertices[2]
  IN  IF ~ Has(st.vertices, oldV1Id) \/ ~ Has(st.vertices, oldV2Id) THEN st
      ELSE
      LET newEdge1Id == EId(st.ctr.e)
          newEdge2Id == EId(st.ctr.e + 1)
          vs1 == DropEdge(DropEdge(st.vertices, oldV1Id, edgeId), oldV2Id, edgeId)
          vs2 == PushEdge(PushEdge(vs1, oldV1Id, newEdge1Id), oldV2Id, newEdge2Id)
          vs3 == PushEdge(PushEdge(vs2, intersectionVertexId, newEdge1Id),
                          intersectionVertexId, newEdge2Id)
          es1 == Put(st.edges, [id |-> newEdge1Id,
                                vertices |-> <<oldV1Id, intersectionVertexId>>,
                                faces |-> <<>>,
                                isConstruction |-> edge.isConstruction])
          es2 == Put(es1, [id |-> newEdge2Id,
                           vertices |-> <<intersectionVertexId, oldV2Id>>,
                           faces |-> <<>>,
                           isConstruction |-> edge.isConstruction])
      IN  [st EXCEPT !.vertices = vs3, !.edges = Delete(es2, edgeId),
                     !.ctr.e = @ + 2]

RECURSIVE SplitAll(_, _, _, _)
SplitAll(st, hits, intersectionVertexIds, i) ==
  IF i > Len(hits) THEN st
  ELSE SplitAll(SplitEdge(st, hits[i].edgeId, intersectionVertexIds[i]),
                hits, intersectionVertexIds, i + 1)

\* store.ts addEdge 490-498: one vertex per intersection, in sorted order
RECURSIVE AddIntersectionVertices(_, _)
AddIntersectionVertices(st, hits) ==
  IF hits = <<>> THEN st
  ELSE AddIntersectionVertices(addVertex(st, Head(hits).point), Tail(hits))

\* store.ts addEdge 549-566: the chain of edges along the new line, from the i-th
\* segment on
RECURSIVE AddChain(_, _, _)
AddChain(st, allVertexIds, i) ==
  IF i > Len(allVertexIds) - 1 THEN st
  ELSE
  LET newEdgeId == EId(st.ctr.e)
      st1 == [st EXCEPT
                !.edges = Put(@, [id |-> newEdgeId,
                                  vertices |-> <<allVertexIds[i], allVertexIds[i + 1]>>,
                                  faces |-> <<>>, isConstruction |-> "false"]),
                !.vertices = PushEdge(PushEdge(@, allVertexIds[i], newEdgeId),
                                      allVertexIds[i + 1], newEdgeId),
                !.ctr.e = @ + 1]
  IN  AddChain(st1, allVertexIds, i + 1)

\* store.ts addEdge 569-575: face detection for each new edge of the chain
RECURSIVE DetectForChain(_, _)
DetectForChain(st, newEdgeIds) ==
  IF newEdgeIds = <<>> THEN st
  ELSE
  LET st1 == IF Has(st.edges, Head(newEdgeIds))
             THEN LET newEdge == Get(st.edges, Head(newEdgeIds))
                  IN  detectAndCreateFaces(st, newEdge.vertices[1],
                                           newEdge.vertices[2], newEdge.id)
             ELSE st
  IN  DetectForChain(st1, Tail(newEdgeIds))

\* store.ts addEdge 484-578.  The id generated on entry is EId(st.ctr.e); it is
\* given to no edge here, and the edges made take the numbers after it.
AddEdgeSplit(st, v1Id, v2Id, hits) ==
  LET sorted == SortByT(hits)
      k == Len(sorted)
      intersectionVertexIds == [i \in 1..k |-> VId(st.ctr.v + i - 1)]
      st1 == AddIntersectionVertices([st EXCEPT !.ctr.e = @ + 1], sorted)
      st2 == SplitAll(st1, sorted, intersectionVertexIds, 1)
      allVertexIds == <<v1Id>> \o intersectionVertexIds \o <<v2Id>>
      first == st2.ctr.e
      st3 == AddChain(st2, allVertexIds, 1)
      newEdgeIds == [i \in 1..(k + 1) |-> EId(first + i - 1)]
  IN  DetectForChain(st3, newEdgeIds)

(* ---- addEdge: chord invalidation ---- *)

\* a test that takes no face for subdivided
NotSubdivided(st, face, v1Id, v2Id) == FALSE

\* a test that takes every face at the first end for subdivided
SubdividedAtFirstEnd(st, face, v1Id, v2Id) ==
  \E e \in Range(face.edges) : Has(st.edges, e) /\ v1Id \in Range(Get(st.edges, e).vertices)

\* store.ts addEdge 596-627: both ends are vertices of the face and no boundary
\* edge of the face joins them
IsSubdivided(st, face, v1Id, v2Id) ==
  LET faceVertices ==
        UNION {Range(Get(st.edges, e).vertices) :
                 e \in {x \in Range(face.edges) : Has(st.edges, x)}}
      areAdjacent ==
        \E e \in Range(face.edges) :
          Has(st.edges, e) /\ Joins(Get(st.edges, e), v1Id, v2Id)
  IN  v1Id \in faceVertices /\ v2Id \in faceVertices /\ ~ areAdjacent

\* a removal that leaves the face id in the edges' lists
KeepFaceRefs(es, ids, faceId) == es

\* edge.faces = edge.faces.filter(f => f !== faceId) for the ids of the list
DetachFace(es, ids, faceId) ==
  [i \in DOMAIN es |->
     IF Includes(ids, es[i].id) THEN [es[i] EXCEPT !.faces = Without(@, faceId)]
     ELSE es[i]]

\* store.ts addEdge 631-643
RECURSIVE RemoveFaces(_, _)
RemoveFaces(st, facesToRemove) ==
  IF facesToRemove = <<>> THEN st
  ELSE
  LET faceId == Head(facesToRemove)
      st1 == IF Has(st.faces, faceId)
             THEN [st EXCEPT
                     !.edges = DetachFace(@, Get(st.faces, faceId).edges, faceId),
                     !.faces = Delete(@, faceId)]
             ELSE st
  IN  RemoveFaces(st1, Tail(facesToRemove))

\* store.ts addEdge 580-646
AddEdgePlain(st, v1Id, v2Id) ==
  LET id == EId(st.ctr.e)
      st1 == [st EXCEPT
                !.edges = Put(@, [id |-> id, vertices |-> <<v1Id, v2Id>>,
                                  faces |-> <<>>, isConstruction |-> "false"]),
                !.vertices = PushEdge(PushEdge(@, v1Id, id), v2Id, id),
                !.ctr.e = @ + 1]
      subdivided == SelectSeq(st1.faces, LAMBDA f : IsSubdivided(st1, f, v1Id, v2Id))
      facesToRemove == [i \in DOMAIN subdivided |-> subdivided[i].id]
  IN  detectAndCreateFaces(RemoveFaces(st1, facesToRemove), v1Id, v2Id, id)

\* no test for an existing edge
NeverJoined(st, v1Id, v2Id) == FALSE
\* a test that finds an existing edge only from v1 to v2
JoinedInOrder(st, v1Id, v2Id) ==
  \E i \in DOMAIN st.edges : st.edges[i].vertices = <<v1Id, v2Id>>

AlreadyJoined(st, v1Id, v2Id) == FindEdge(st.edges, v1Id, v2Id) # NULL

\* store.ts addEdge
addEdge(st, v1Id, v2Id) ==
  IF ~ Has(st.vertices, v1Id) \/ ~ Has(st.vertices, v2Id) THEN st
  ELSE IF AlreadyJoined(st, v1Id, v2Id) THEN st
  ELSE
  LET hits == Intersections(st, Get(st.vertices, v1Id).position,
                            Get(st.vertices, v2Id).position)
  IN  IF Len(hits) > 0 THEN AddEdgeSplit(st, v1Id, v2Id, hits)
      ELSE AddEdgePlain(st, v1Id, v2Id)

(* ---- addFace ---- *)

\* store.ts addFace 686-715: find or create the edge of each consecutive pair, from
\* the i-th pair on; the result is <<st, edgeIds>>
RECURSIVE FaceEdges(_, _, _, _)
FaceEdges(st, vertexIds, i, edgeIds) ==
  IF i > Len(vertexIds) THEN <<st, edgeIds>>
  ELSE
  LET v1Id == vertexIds[i]
      v2Id == vertexIds[(i % Len(vertexIds)) + 1]
      found == FindEdge(st.edges, v1Id, v2Id)
  IN  IF found # NULL
      THEN FaceEdges(st, vertexIds, i + 1, Append(edgeIds, found))
      ELSE
      LET newEdgeId == EId(st.ctr.e)
          st1 == [st EXCEPT
                    !.edges = Put(@, [id |-> newEdgeId, vertices |-> <<v1Id, v2Id>>,
                                      faces |-> <<>>, isConstruction |-> "undefined"]),
                    !.vertices = PushEdge(PushEdge(@, v1Id, newEdgeId), v2Id, newEdgeId),
                    !.ctr.e = @ + 1]
      IN  FaceEdges(st1, vertexIds, i + 1, Append(edgeIds, newEdgeId))

\* "if (edge && !edge.faces.includes(faceId)) edge.faces.push(faceId)" in turn
PushFaceOnce(es, ids, faceId) ==
  [i \in DOMAIN es |->
     IF Includes(ids, es[i].id) /\ ~ Includes(es[i].faces, faceId)
     THEN [es[i] EXCEPT !.faces = Append(@, faceId)]
     ELSE es[i]]

\* store.ts addFace 717-734: the cross product of the first two boundary vectors,
\* normalized when its length is > 0
FaceNormal3(p0, p1, p2) ==
  LET normal == CrossProduct(VSub(p1, p0), VSub(p2, p0))
  IN  IF RLt(RInt(0), Len2(normal)) THEN Normalized(normal) ELSE <<0, 0, 0>>

\* addFace returns the face id (created) rather than null
AddFaceCreates(st, vertexIds) ==
  Len(vertexIds) >= 3 /\ \A i \in DOMAIN vertexIds : Has(st.vertices, vertexIds[i])

\* store.ts addFace
addFace(st, vertexIds) ==
  IF ~ AddFaceCreates(st, vertexIds) THEN st
  ELSE
  LET faceId == FId(st.ctr.f)
      positions == [i \in DOMAIN vertexIds |-> Get(st.vertices, vertexIds[i]).position]
      fe == FaceEdges(st, vertexIds, 1, <<>>)
      st1 == fe[1]
      edgeIds == fe[2]
  IN  [st1 EXCEPT
         !.faces = Put(@, [id |-> faceId, edges |-> edgeIds,
                           normal |-> FaceNormal3(positions[1], positions[2],
                                                  positions[3])]),
         !.edges = PushFaceOnce(@, edgeIds, faceId),
         !.ctr.f = @ + 1]

(* --------------------------- circles and arcs --------------------------- *)
(* Angles are counted in steps of a 24th of a turn, the step of the          *)
(* 24-segment polygon.  Math.cos and Math.sin are tabulated to the nearest   *)
(* 32nd, fine enough that the polygon of a circle is strictly convex.        *)
(* The preview of an arc is given angles whose steps are whole.              *)

segments == 24

CosTable == <<32, 31, 28, 23, 16, 8, 0, -8, -16, -23, -28, -31,
              -32, -31, -28, -23, -16, -8, 0, 8, 16, 23, 28, 31>>
Cos(k) == Rat(CosTable[(k % segments) + 1], 32)
Sin(k) == Cos(k + 18)

\* Math.sqrt(dx * dx + dz * dz) for the offsets the tools are given here, whose
\* sum of squares is the square of a rational with the same denominator
Radius(center, edgePoint) ==
  LET dx == RSub(edgePoint[1], center[1])
      dz == RSub(edgePoint[3], center[3])
      q == RAdd(RMul(dx, dx), RMul(dz, dz))
      n == CHOOSE r \in 0..q[1] : r * r = q[1]
      d == CHOOSE r \in 1..q[2] : r * r = q[2]
  IN  <<n, d>>

PointAt(center, radius, k) ==
  << RAdd(center[1], RMul(Cos(k), radius)), center[2],
     RAdd(center[3], RMul(Sin(k), radius)) >>

\* the polygon of updateCirclePreview
CirclePoints(center, radius) ==
  [i \in 1..segments |-> PointAt(center, radius, i - 1)]

\* the segment count and the points of updateArcPreview; the angle of point i
\* is startAngle + (i / n) * (endAngle - startAngle)
ArcSegments(startAngle, endAngle) ==
  LET angleDiff == Abs(endAngle - startAngle)
  IN  IF angleDiff > 3 THEN angleDiff ELSE 3
ArcPoints(center, radius, startAngle, endAngle) ==
  LET n == ArcSegments(startAngle, endAngle)
  IN  [i \in 1..(n + 1) |->
         PointAt(center, radius,
                 startAngle + ((i - 1) * (endAngle - startAngle)) \div n)]

\* the vertices a tool creates directly, with empty edge lists
CreateVertices(st, positions) ==
  [st EXCEPT
     !.vertices = @ \o [i \in DOMAIN positions |->
                          [id |-> VId(st.ctr.v + i - 1), position |-> positions[i],
                           edges |-> <<>>]],
     !.ctr.v = @ + Len(positions)]

\* the edges a tool creates directly between consecutive vertices: count of
\* them, wrapping round to the first vertex when the curve is closed.  Edge i
\* is pushed onto its first and then its second vertex, for i = 1, 2, ...
CreateEdges(st, vertexIds, count) ==
  LET edgeId(i) == EId(st.ctr.e + i - 1)
      v1Id(i) == vertexIds[i]
      v2Id(i) == vertexIds[(i % Len(vertexIds)) + 1]
      pushes == [m \in 1..(2 * count) |->
                   IF m % 2 = 1 THEN <<v1Id((m + 1) \div 2), edgeId((m + 1) \div 2)>>
                   ELSE <<v2Id(m \div 2), edgeId(m \div 2)>>]
      pushed(id) == LET mine == SelectSeq(pushes, LAMBDA x : x[1] = id)
                    IN  [k \in DOMAIN mine |-> mine[k][2]]
  IN  [st EXCEPT
         !.edges = @ \o [i \in 1..count |->
                           [id |-> edgeId(i), vertices |-> <<v1Id(i), v2Id(i)>>,
                            faces |-> <<>>, isConstruction |-> "false"]],
         !.vertices = [j \in DOMAIN st.vertices |->
                         [st.vertices[j] EXCEPT !.edges = @ \o pushed(st.vertices[j].id)]],
         !.ctr.e = @ + count]

\* the geometry finishCircle creates from the preview polygon
CircleGeometry(st, positions) ==
  LET n == Len(positions)
      withVertices == CreateVertices(st, positions)
      vertexIds == [i \in 1..n |-> VId(st.ctr.v + i - 1)]
      withEdges == CreateEdges(withVertices, vertexIds, n)
      edgeIds == [i \in 1..n |-> EId(st.ctr.e + i - 1)]
      faceId == FId(st.ctr.f)
  IN  [withEdges EXCEPT
         !.faces = Put(@, [id |-> faceId, edges |-> edgeIds,
                           normal |-> <<0, 1, 0>>]),
         !.edges = PushFace(@, edgeIds, faceId),
         !.ctr.f = @ + 1]

\* the geometry finishArc creates from the preview points: an open chain
ArcGeometry(st, positions) ==
  LET n == Len(positions)
      withVertices == CreateVertices(st, positions)
      vertexIds == [i \in 1..n |-> VId(st.ctr.v + i - 1)]
  IN  CreateEdges(withVertices, vertexIds, n - 1)

(* ------------------------------- snapping ------------------------------ *)
(* A ray is [origin, direction], its direction of length 1.  A nullable      *)
(* point is <<>> or <<point>>.  Angles are compared by their cosines,        *)
(* lengths by their squares.                                                 *)

\* Math.round: the nearest integer, a half rounded up
Round(a) == (2 * a[1] + a[2]) \div (2 * a[2])

\* a snap that leaves the count of cells unscaled
SnapToCell(value, gridSize) == RInt(Round(RDiv(value, gridSize)))

\* utils.ts snapToGrid
snapToGrid(value, gridSize) == RMul(RInt(Round(RDiv(value, gridSize))), gridSize)

\* utils.ts snapPointToGrid
snapPointToGrid(point, gridSize) ==
  << snapToGrid(point[1], gridSize), snapToGrid(point[2], gridSize),
     snapToGrid(point[3], gridSize) >>

AXIS_COLORS ==
  [x |-> "#e74c3c", y |-> "#2ecc71", z |-> "#3498db", none |-> "#a0aec0",
   vertex |-> "#22c55e"]

\* an angle test that is passed by every direction off the axis itself
AngleAboveZero(d, length2) == RLt(RMul(d, d), length2)

\* Math.acos(Math.abs(d / length)) > AXIS_LOCK_THRESHOLD, the threshold being
\* pi / 12: (d / length)^2 < cos^2(pi / 12) = (2 + sqrt 3) / 4, which for
\* x = 4 (d / length)^2 - 2 is x < sqrt 3.  265/153 and 362/209 are the
\* fractions next below and above sqrt 3; x is squared only between them.
AngleAboveThreshold(d, length2) ==
  LET x == RSub(RMul(RInt(4), RDiv(RMul(d, d), length2)), RInt(2))
  IN  IF RLe(x, Rat(265, 153)) THEN TRUE
      ELSE IF RLe(Rat(362, 209), x) THEN FALSE
      ELSE RLt(RMul(x, x), RInt(3))

\* utils.ts inferAxis
inferAxis(startPoint, rawEndPoint, gridSize, snapEnabled) ==
  LET dx == RSub(rawEndPoint[1], startPoint[1])
      dy == RSub(rawEndPoint[2], startPoint[2])
      dz == RSub(rawEndPoint[3], startPoint[3])
      length2 == Len2(<<dx, dy, dz>>)
      coordinate(v) == IF snapEnabled THEN snapToGrid(v, gridSize) ELSE v
  IN  IF RLtInv(length2, 100)
      THEN [axis |-> "none", point |-> rawEndPoint, color |-> AXIS_COLORS.none]
      ELSE IF /\ AngleAboveThreshold(dx, length2)
              /\ AngleAboveThreshold(dy, length2)
              /\ AngleAboveThreshold(dz, length2)
      THEN [axis |-> "none",
            point |-> IF snapEnabled THEN snapPointToGrid(rawEndPoint, gridSize)
                      ELSE rawEndPoint,
            color |-> AXIS_COLORS.none]
      \* angleX === minAngle: no direction cosine is larger than that of x
      ELSE IF RLe(RAbs(dy), RAbs(dx)) /\ RLe(RAbs(dz), RAbs(dx))
      THEN [axis |-> "x",
            point |-> <<coordinate(rawEndPoint[1]), startPoint[2], startPoint[3]>>,
            color |-> AXIS_COLORS.x]
      ELSE IF RLe(RAbs(dx), RAbs(dy)) /\ RLe(RAbs(dz), RAbs(dy))
      THEN [axis |-> "y",
            point |-> <<startPoint[1], coordinate(rawEndPoint[2]), startPoint[3]>>,
            color |-> AXIS_COLORS.y]
      ELSE [axis |-> "z",
            point |-> <<startPoint[1], startPoint[2], coordinate(rawEndPoint[3])>>,
            color |-> AXIS_COLORS.z]

\* THREE.Ray.closestPointToPoint: the point of the ray nearest to the point, the
\* origin when the point is behind it
closestPointToPoint(ray, point) ==
  LET directionDistance == Dot(VSub(point, ray.origin), ray.direction)
  IN  IF RLt(directionDistance, RInt(0)) THEN ray.origin
      ELSE VAdd(ray.origin, VScale(directionDistance, ray.direction))

\* the squared distance of a point to the ray
DistanceToRay2(ray, point) == Distance2(point, closestPointToPoint(ray, point))

\* THREE.Ray.intersectPlane with the horizontal plane at the height: <<point>>, or
\* <<>> for null (the ray runs along the plane off it, or away from it)
intersectPlane(ray, height) ==
  LET denominator == ray.direction[2]
      above == RSub(ray.origin[2], height)
  IN  IF denominator[1] = 0
      THEN IF above[1] = 0 THEN <<ray.origin>> ELSE <<>>
      ELSE LET t == RNeg(RDiv(above, denominator))
           IN  IF RLt(t, RInt(0)) THEN <<>>
               ELSE <<VAdd(ray.origin, VScale(t, ray.direction))>>

\* utils.ts closestPointOnLineToRay
closestPointOnLineToRay(lineOrigin, lineDir, ray) ==
  LET w0 == VSub(lineOrigin, ray.origin)
      a == Dot(lineDir, lineDir)
      b == Dot(lineDir, ray.direction)
      c == Dot(ray.direction, ray.direction)
      d == Dot(lineDir, w0)
      e == Dot(ray.direction, w0)
      denom == RSub(RMul(a, c), RMul(b, b))
  IN  IF RLtInv(RAbs(denom), 10000) THEN [t |-> RInt(0), point |-> lineOrigin]
      ELSE LET t == RDiv(RSub(RMul(b, e), RMul(c, d)), denom)
           IN  [t |-> t, point |-> VAdd(lineOrigin, VScale(t, lineDir))]

Axes ==
  << [name |-> "x", dir |-> Vec(1, 0, 0)], [name |-> "y", dir |-> Vec(0, 1, 0)],
     [name |-> "z", dir |-> Vec(0, 0, 1)] >>

\* utils.ts inferAxisFromRay 577-602: the last axis taken, 0 for none.  distToRay2
\* and axisDistance2 are the squared distances of the three axes; bestDistance is
\* the least distToRay of the axes taken so far: an axis is taken when it is
\* within its threshold (distToRay < Math.max(0.32, axisDistance * 0.1)) and
\* nearer than every earlier axis within its threshold.
BestAxis(distToRay2, axisDistance2) ==
  LET within == [i \in 1..3 |-> \/ RLt(distToRay2[i], Rat(64, 625))
                                \/ RLt(distToRay2[i], RDiv(axisDistance2[i], RInt(100)))]
      taken == {i \in 1..3 :
                  /\ within[i]
                  /\ \A j \in 1..(i - 1) :
                       within[j] => RLt(distToRay2[i], distToRay2[j])}
  IN  IF taken = {} THEN 0 ELSE CHOOSE i \in taken : \A j \in taken : j <= i

\* utils.ts inferAxisFromRay 604-659: the result for the best axis, or for the
\* intersection with the ground plane at the start point's height
AxisResult(startPoint, points, best, intersection, gridSize, snapEnabled) ==
  IF best # 0
  THEN [axis |-> Axes[best].name,
        point |-> [k \in 1..3 |->
                     IF k = best
                     THEN IF snapEnabled THEN snapToGrid(points[best][k], gridSize)
                          ELSE points[best][k]
                     ELSE startPoint[k]],
        color |-> AXIS_COLORS[Axes[best].name]]
  ELSE IF intersection # <<>>
  THEN [axis |-> "none",
        point |-> IF snapEnabled THEN snapPointToGrid(intersection[1], gridSize)
                  ELSE intersection[1],
        color |-> AXIS_COLORS.none]
  ELSE [axis |-> "none", point |-> startPoint, color |-> AXIS_COLORS.none]

\* the closest points of the three axes through the start point, with the result
AxisLock(startPoint, ray, gridSize, snapEnabled, points) ==
  AxisResult(startPoint, points,
             BestAxis([i \in 1..3 |-> DistanceToRay2(ray, points[i])],
                      [i \in 1..3 |-> Distance2(points[i], startPoint)]),
             intersectPlane(ray, startPoint[2]), gridSize, snapEnabled)

\* utils.ts inferAxisFromRay (the camera is asked for its direction, which is not
\* used)
inferAxisFromRay(startPoint, ray, gridSize, snapEnabled) ==
  AxisLock(startPoint, ray, gridSize, snapEnabled,
           [i \in 1..3 |-> closestPointOnLineToRay(startPoint, Axes[i].dir, ray).point])

\* utils.ts getRaw3DPoint: <<point>>, or <<>> for null
getRaw3DPoint(ray, startPoint) ==
  IF startPoint # <<>> /\ intersectPlane(ray, startPoint[1][2]) # <<>>
  THEN intersectPlane(ray, startPoint[1][2])
  ELSE intersectPlane(ray, RInt(0))

VERTEX_SNAP_THRESHOLD == Rat(3, 2)

\* a scan that does not pass over the excluded vertex
SnapCandidatesAll(ray, vs, excludeVertexId) ==
  {i \in DOMAIN vs :
     /\ RLt(DistanceToRay2(ray, vs[i].position),
            RMul(VERTEX_SNAP_THRESHOLD, VERTEX_SNAP_THRESHOLD))
     /\ \A j \in 1..(i - 1) :
          RLt(DistanceToRay2(ray, vs[i].position), DistanceToRay2(ray, vs[j].position))}

\* utils.ts computeSnap, the scan over the vertices in Map order: the vertices at
\* which dist < closestVertexDist, closestVertexDist being the least of the
\* threshold and the distances of the earlier vertices that are not excluded
SnapCandidates(ray, vs, excludeVertexId) ==
  {i \in DOMAIN vs :
     /\ vs[i].id # excludeVertexId
     /\ RLt(DistanceToRay2(ray, vs[i].position),
            RMul(VERTEX_SNAP_THRESHOLD, VERTEX_SNAP_THRESHOLD))
     /\ \A j \in 1..(i - 1) :
          vs[j].id # excludeVertexId
          => RLt(DistanceToRay2(ray, vs[i].position),
                 DistanceToRay2(ray, vs[j].position))}

\* utils.ts computeSnap 488-495: snap to the closest vertex found
VertexSnap(closest) ==
  [point |-> closest.position, color |-> AXIS_COLORS.vertex,
   snapType |-> "vertex", vertexId |-> closest.id, axis |-> "undefined"]

\* utils.ts computeSnap 498-507: the axis inference from the start point
AxisSnap(axisResult, snapEnabled) ==
  [point |-> axisResult.point, color |-> axisResult.color,
   snapType |-> IF axisResult.axis # "none" THEN "axis"
                ELSE IF snapEnabled THEN "grid" ELSE "none",
   vertexId |-> NULL, axis |-> axisResult.axis]

\* utils.ts computeSnap 509-523: the raw point, snapped to the grid when enabled
GridSnap(rawPoint, gridSize, snapEnabled) ==
  IF rawPoint = <<>>
  THEN [point |-> Vec(0, 0, 0), color |-> AXIS_COLORS.none,
        snapType |-> "none", vertexId |-> NULL, axis |-> "undefined"]
  ELSE [point |-> IF snapEnabled THEN snapPointToGrid(rawPoint[1], gridSize)
                  ELSE rawPoint[1],
        color |-> AXIS_COLORS.none,
        snapType |-> IF snapEnabled THEN "grid" ELSE "none",
        vertexId |-> NULL, axis |-> "undefined"]

\* the last of the vertices found by the scan, 0 for none
LastOf(found) == IF found = {} THEN 0 ELSE CHOOSE i \in found : \A j \in found : j <= i

\* utils.ts computeSnap 466-523, closest being the place of closestVertex in the Map
SnapResult(ray, vs, startPoint, gridSize, snapEnabled, closest) ==
  IF closest # 0 THEN VertexSnap(vs[closest])
  ELSE IF startPoint # <<>>
  THEN AxisSnap(inferAxisFromRay(startPoint[1], ray, gridSize, snapEnabled), snapEnabled)
  ELSE GridSnap(getRaw3DPoint(ray, <<>>), gridSize, snapEnabled)

\* utils.ts computeSnap (the camera is only handed on); a result without a
\* vertexId has NULL, one without an axis has "undefined"
computeSnap(ray, vs, startPoint, excludeVertexId, gridSize, snapEnabled) ==
  SnapResult(ray, vs, startPoint, gridSize, snapEnabled,
             LastOf(SnapCandidates(ray, vs, excludeVertexId)))

(* ------------------------------- the state ----------------------------- *)

VARIABLES
  vertices, edges, faces,     \* the three Maps of the store
  ctr,                        \* the id supply
  history, historyIndex,      \* undo/redo snapshots; historyIndex counts from 0
  selectedIds, selectedType,  \* the selection
  activeTool,
  rectangleStartPoint, rectanglePreviewCorners, rectangleIsVertical,
  circleCenter, circlePreviewVertices,   \* the circle tool; <<>> is null, <<x>> is x
  arcCenter, arcRadius, arcStartAngle, arcEndAngle, arcPreviewVertices,
  isDrawing, drawStartVertexId, previewPoint,
  lastOp,                     \* the last call made on the store and what it returned
  update,                     \* the set(...) in progress: <<>> is none, <<u>> is u
  plan, free,                 \* the driver: calls still to make in order, free calls made
  noted                       \* the driver's notes: what the store held at its last calls

geom == <<vertices, edges, faces>>
hist == <<history, historyIndex>>
sel == <<selectedIds, selectedType>>
rectangle == <<rectangleStartPoint, rectanglePreviewCorners, rectangleIsVertical>>
circle == <<circleCenter, circlePreviewVertices>>
arc == <<arcCenter, arcRadius, arcStartAngle, arcEndAngle, arcPreviewVertices>>
tools == <<activeTool, rectangle, circle, arc, isDrawing, drawStartVertexId, previewPoint>>
driver == <<plan, free, noted>>
vars == <<vertices, edges, faces, ctr, history, historyIndex, selectedIds,
          selectedType, activeTool, rectangleStartPoint, rectanglePreviewCorners,
          rectangleIsVertical, circleCenter, circlePreviewVertices, arcCenter,
          arcRadius, arcStartAngle, arcEndAngle, arcPreviewVertices, isDrawing,
          drawStartVertexId, previewPoint, lastOp, update, plan, free, noted>>

Store == [vertices |-> vertices, edges |-> edges, faces |-> faces, ctr |-> ctr]
SetStore(st) ==
  /\ vertices' = st.vertices
  /\ edges' = st.edges
  /\ faces' = st.faces
  /\ ctr' = st.ctr

Call(op, ids, pos, ret) == [op |-> op, ids |-> ids, pos |-> pos, ret |-> ret]

(* ------------------------------ operations ----------------------------- *)

AddVertex(position) ==
  /\ SetStore(addVertex(Store, position))
  /\ lastOp' = Call("addVertex", <<>>, <<position>>, VId(ctr.v))
  /\ UNCHANGED <<hist, sel, tools>>

AddEdge(v1Id, v2Id) ==
  /\ SetStore(addEdge(Store, v1Id, v2Id))
  /\ lastOp' = Call("addEdge", <<v1Id, v2Id>>, <<>>, EId(ctr.e))
  /\ UNCHANGED <<hist, sel, tools>>

DeleteVertex(id) ==
  /\ SetStore(deleteVertex(Store, id))
  /\ selectedIds' = IF Has(vertices, id) THEN selectedIds \ {id} ELSE selectedIds
  /\ lastOp' = Call("deleteVertex", <<id>>, <<>>, NULL)
  /\ UNCHANGED <<hist, selectedType, tools>>

DeleteEdge(id) ==
  /\ SetStore(deleteEdge(Store, id))
  /\ selectedIds' = IF Has(edges, id) THEN selectedIds \ {id} ELSE selectedIds
  /\ lastOp' = Call("deleteEdge", <<id>>, <<>>, NULL)
  /\ UNCHANGED <<hist, selectedType, tools>>

UpdateVertexPosition(id, position) ==
  /\ SetStore(updateVertexPosition(Store, id, position))
  /\ lastOp' = Call("updateVertexPosition", <<id>>, <<position>>, NULL)
  /\ UNCHANGED <<hist, sel, tools>>

\* a query: the threshold is recorded with the call as its only id
FindNearbyVertex(position, threshold) ==
  /\ lastOp' = Call("findNearbyVertex", <<threshold>>, <<position>>,
                    findNearbyVertex(vertices, position, threshold))
  /\ UNCHANGED <<geom, ctr, hist, sel, tools>>

\* the queries of the drawing tools: the arguments are recorded with the call
SnapToGrid(value, gridSize) ==
  /\ lastOp' = Call("snapToGrid", <<>>, <<value, gridSize>>, snapToGrid(value, gridSize))
  /\ UNCHANGED <<geom, ctr, hist, sel, tools>>

InferAxis(startPoint, rawEndPoint, args) ==
  /\ lastOp' = Call("inferAxis", args, <<startPoint, rawEndPoint>>,
                    inferAxis(startPoint, rawEndPoint, args.gridSize, args.snapEnabled))
  /\ UNCHANGED <<geom, ctr, hist, sel, tools>>

ComputeSnap(args) ==
  /\ lastOp' = Call("computeSnap", args, <<>>,
                    computeSnap(args.ray, vertices, args.startPoint,
                                args.excludeVertexId, args.gridSize, args.snapEnabled))
  /\ UNCHANGED <<geom, ctr, hist, sel, tools>>

AddFace(vertexIds) ==
  /\ SetStore(addFace(Store, vertexIds))
  /\ lastOp' = Call("addFace", vertexIds, <<>>,
                    IF AddFaceCreates(Store, vertexIds) THEN FId(ctr.f) ELSE NULL)
  /\ UNCHANGED <<hist, sel, tools>>

SetSelection(ids, type) ==
  /\ selectedIds' = Range(ids)
  /\ selectedType' = IF Len(ids) > 0 THEN type ELSE "null"
  /\ lastOp' = Call("setSelection", ids, <<type>>, NULL)
  /\ UNCHANGED <<geom, ctr, hist, tools>>

(* ---- circle and arc tools ---- *)

StartCircle(center) ==
  /\ circleCenter' = <<center>>
  /\ isDrawing' = TRUE
  /\ UNCHANGED drawStartVertexId
  /\ lastOp' = Call("startCircle", <<>>, <<center>>, NULL)
  /\ UNCHANGED <<geom, ctr, hist, sel, activeTool, rectangle, circlePreviewVertices,
                 arc, previewPoint>>

UpdateCirclePreview(edgePoint) ==
  /\ lastOp' = Call("updateCirclePreview", <<>>, <<edgePoint>>, NULL)
  /\ UNCHANGED <<geom, ctr, hist, sel, activeTool, rectangle, circleCenter, arc,
                 isDrawing, drawStartVertexId>>
  /\ IF circleCenter = <<>>
     THEN UNCHANGED <<circlePreviewVertices, previewPoint>>
     ELSE LET center == circleCenter[1]
              radius == Radius(center, edgePoint)
          IN  IF RLtInv(radius, 100)
              THEN /\ circlePreviewVertices' = <<>>
                   /\ UNCHANGED previewPoint
              ELSE /\ circlePreviewVertices' = <<CirclePoints(center, radius)>>
                   /\ previewPoint' = <<edgePoint>>

FinishCircle ==
  /\ lastOp' = Call("finishCircle", <<>>, <<>>, NULL)
  /\ circleCenter' = <<>>
  /\ circlePreviewVertices' = <<>>
  /\ isDrawing' = FALSE
  /\ UNCHANGED drawStartVertexId
  /\ previewPoint' = <<>>
  /\ UNCHANGED <<hist, sel, activeTool, rectangle, arc>>
  /\ IF circlePreviewVertices = <<>> \/ Len(circlePreviewVertices[1]) < 3
     THEN UNCHANGED <<geom, ctr>>
     ELSE SetStore(CircleGeometry(Store, circlePreviewVertices[1]))

StartArc(center) ==
  /\ arcCenter' = <<center>>
  /\ arcRadius' = RInt(0)
  /\ arcStartAngle' = <<>>
  /\ arcEndAngle' = <<>>
  /\ isDrawing' = TRUE
  /\ UNCHANGED drawStartVertexId
  /\ lastOp' = Call("startArc", <<>>, <<center>>, NULL)
  /\ UNCHANGED <<geom, ctr, hist, sel, activeTool, rectangle, circle,
                 arcPreviewVertices, previewPoint>>

UpdateArcPreview(edgePoint, startAngle, endAngle) ==
  /\ lastOp' = Call("updateArcPreview", <<>>, <<edgePoint>>, NULL)
  /\ UNCHANGED <<geom, ctr, hist, sel, activeTool, rectangle, circle, arcCenter,
                 isDrawing, drawStartVertexId>>
  /\ IF arcCenter = <<>>
     THEN UNCHANGED <<arcRadius, arcStartAngle, arcEndAngle, arcPreviewVertices,
                      previewPoint>>
     ELSE LET center == arcCenter[1]
              radius == Radius(center, edgePoint)
          IN  IF RLtInv(radius, 100)
              THEN /\ arcPreviewVertices' = <<>>
                   /\ UNCHANGED <<arcRadius, arcStartAngle, arcEndAngle, previewPoint>>
              ELSE /\ arcRadius' = radius
                   /\ arcStartAngle' = <<startAngle>>
                   /\ arcEndAngle' = <<endAngle>>
                   /\ arcPreviewVertices' =
                        <<ArcPoints(center, radius, startAngle, endAngle)>>
                   /\ previewPoint' = <<edgePoint>>

FinishArc ==
  /\ lastOp' = Call("finishArc", <<>>, <<>>, NULL)
  /\ arcCenter' = <<>>
  /\ arcRadius' = RInt(0)
  /\ arcStartAngle' = <<>>
  /\ arcEndAngle' = <<>>
  /\ arcPreviewVertices' = <<>>
  /\ isDrawing' = FALSE
  /\ UNCHANGED drawStartVertexId
  /\ previewPoint' = <<>>
  /\ UNCHANGED <<hist, sel, activeTool, rectangle, circle>>
  /\ IF arcPreviewVertices = <<>> \/ Len(arcPreviewVertices[1]) < 2
     THEN UNCHANGED <<geom, ctr>>
     ELSE SetStore(ArcGeometry(Store, arcPreviewVertices[1]))

\* store.ts cancelCircle
CancelCircle ==
  /\ lastOp' = Call("cancelCircle", <<>>, <<>>, NULL)
  /\ circleCenter' = <<>>
  /\ circlePreviewVertices' = <<>>
  /\ isDrawing' = FALSE
  /\ UNCHANGED drawStartVertexId
  /\ previewPoint' = <<>>
  /\ UNCHANGED <<geom, ctr, hist, sel, activeTool, rectangle, arc>>

\* store.ts cancelArc
CancelArc ==
  /\ lastOp' = Call("cancelArc", <<>>, <<>>, NULL)
  /\ arcCenter' = <<>>
  /\ arcRadius' = RInt(0)
  /\ arcStartAngle' = <<>>
  /\ arcEndAngle' = <<>>
  /\ arcPreviewVertices' = <<>>
  /\ isDrawing' = FALSE
  /\ UNCHANGED drawStartVertexId
  /\ previewPoint' = <<>>
  /\ UNCHANGED <<geom, ctr, hist, sel, activeTool, rectangle, circle>>

(* ---- the rectangle tool ---- *)

\* store.ts setActiveTool
SetActiveTool(tool) ==
  /\ lastOp' = Call("setActiveTool", <<tool>>, <<>>, NULL)
  /\ activeTool' = tool
  /\ isDrawing' = FALSE
  /\ drawStartVertexId' = NULL
  /\ previewPoint' = <<>>
  /\ rectangleStartPoint' = <<>>
  /\ rectanglePreviewCorners' = <<>>
  /\ rectangleIsVertical' = FALSE
  /\ circleCenter' = <<>>
  /\ circlePreviewVertices' = <<>>
  /\ arcCenter' = <<>>
  /\ arcRadius' = RInt(0)
  /\ arcStartAngle' = <<>>
  /\ arcEndAngle' = <<>>
  /\ arcPreviewVertices' = <<>>
  /\ UNCHANGED <<geom, ctr, hist, sel>>

\* store.ts startRectangle
StartRectangle(point) ==
  /\ lastOp' = Call("startRectangle", <<>>, <<point>>, NULL)
  /\ rectangleStartPoint' = <<point>>
  /\ isDrawing' = TRUE
  /\ UNCHANGED drawStartVertexId
  /\ UNCHANGED <<geom, ctr, hist, sel, activeTool, rectanglePreviewCorners,
                 rectangleIsVertical, circle, arc, previewPoint>>

\* store.ts updateRectanglePreview 868-901: the four corners
RectangleCorners(start, oppositePoint, height, isVertical) ==
  IF isVertical /\ RGtInv(RAbs(height), 100)
  THEN LET dx == RAbs(RSub(oppositePoint[1], start[1]))
           dz == RAbs(RSub(oppositePoint[3], start[3]))
       IN  IF RLe(dz, dx)
           THEN << start,
                   <<oppositePoint[1], start[2], start[3]>>,
                   <<oppositePoint[1], RAdd(start[2], height), start[3]>>,
                   <<start[1], RAdd(start[2], height), start[3]>> >>
           ELSE << start,
                   <<start[1], start[2], oppositePoint[3]>>,
                   <<start[1], RAdd(start[2], height), oppositePoint[3]>>,
                   <<start[1], RAdd(start[2], height), start[3]>> >>
  ELSE << start,
          <<oppositePoint[1], start[2], start[3]>>,
          oppositePoint,
          <<start[1], start[2], oppositePoint[3]>> >>

\* store.ts updateRectanglePreview
UpdateRectanglePreview(oppositePoint, height, isVertical) ==
  /\ lastOp' = Call("updateRectanglePreview", <<height, isVertical>>,
                    <<oppositePoint>>, NULL)
  /\ UNCHANGED <<geom, ctr, hist, sel, activeTool, rectangleStartPoint, circle, arc,
                 isDrawing, drawStartVertexId>>
  /\ IF rectangleStartPoint = <<>>
     THEN UNCHANGED <<rectanglePreviewCorners, rectangleIsVertical, previewPoint>>
     ELSE /\ rectangleIsVertical' = isVertical
          /\ rectanglePreviewCorners' =
               <<RectangleCorners(rectangleStartPoint[1], oppositePoint, height,
                                  isVertical)>>
          /\ previewPoint' = <<oppositePoint>>

\* a test that finds no dimension too small
NeverTooSmall(dim) == FALSE

\* store.ts finishRectangle 940: dim < 0.01
TooSmall(dim) == RLtInv(dim, 100)

\* store.ts finishRectangle 927-938: dim1 and dim2
RectangleDims(corners, isVertical) ==
  IF isVertical
  THEN LET widthX == RAbs(RSub(corners[1][1], corners[2][1]))
           widthZ == RAbs(RSub(corners[1][3], corners[2][3]))
       IN  << IF RLe(widthX, widthZ) THEN widthZ ELSE widthX,
              RAbs(RSub(corners[1][2], corners[3][2])) >>
  ELSE << RAbs(RSub(corners[1][1], corners[3][1])),
          RAbs(RSub(corners[1][3], corners[3][3])) >>

\* store.ts finishRectangle 951-963: addVertex for each corner, then addEdge for
\* each side in order, each a call of the store's own operation
RECURSIVE RectangleEdges(_, _, _)
RectangleEdges(st, vertexIds, i) ==
  IF i > 4 THEN st
  ELSE RectangleEdges(addEdge(st, vertexIds[i], vertexIds[(i % 4) + 1]), vertexIds,
                      i + 1)

RectangleGeometry(st, corners) ==
  LET vertexIds == [i \in 1..4 |-> VId(st.ctr.v + i - 1)]
      withVertices == addVertex(addVertex(addVertex(addVertex(st, corners[1]),
                                                    corners[2]), corners[3]),
                                corners[4])
  IN  RectangleEdges(withVertices, vertexIds, 1)

\* store.ts finishRectangle
FinishRectangle ==
  /\ lastOp' = Call("finishRectangle", <<>>, <<>>, NULL)
  /\ rectangleStartPoint' = <<>>
  /\ rectanglePreviewCorners' = <<>>
  /\ rectangleIsVertical' = FALSE
  /\ isDrawing' = FALSE
  /\ UNCHANGED drawStartVertexId
  /\ previewPoint' = <<>>
  /\ UNCHANGED <<hist, sel, activeTool, circle, arc>>
  /\ IF rectanglePreviewCorners = <<>> \/ Len(rectanglePreviewCorners[1]) # 4
     THEN UNCHANGED <<geom, ctr>>
     ELSE LET dims == RectangleDims(rectanglePreviewCorners[1], rectangleIsVertical)
          IN  IF TooSmall(dims[1]) \/ TooSmall(dims[2])
              THEN UNCHANGED <<geom, ctr>>
              ELSE SetStore(RectangleGeometry(Store, rectanglePreviewCorners[1]))

\* a cancel that leaves the preview corners in place
CancelRectangleKeepsCorners ==
  /\ lastOp' = Call("cancelRectangle", <<>>, <<>>, NULL)
  /\ rectangleStartPoint' = <<>>
  /\ isDrawing' = FALSE
  /\ UNCHANGED drawStartVertexId
  /\ previewPoint' = <<>>
  /\ UNCHANGED <<geom, ctr, hist, sel, activeTool, rectanglePreviewCorners,
                 rectangleIsVertical, circle, arc>>

\* store.ts cancelRectangle
CancelRectangle ==
  /\ lastOp' = Call("cancelRectangle", <<>>, <<>>, NULL)
  /\ rectangleStartPoint' = <<>>
  /\ rectanglePreviewCorners' = <<>>
  /\ rectangleIsVertical' = FALSE
  /\ isDrawing' = FALSE
  /\ UNCHANGED drawStartVertexId
  /\ previewPoint' = <<>>
  /\ UNCHANGED <<geom, ctr, hist, sel, activeTool, circle, arc>>

(* ---- selection, line drawing and the scene ---- *)

AddToSelection(id, type) ==
  /\ selectedIds' = (IF selectedType # "null" /\ selectedType # type
                     THEN {} ELSE selectedIds) \cup {id}
  /\ selectedType' = type
  /\ lastOp' = Call("addToSelection", <<id>>, <<type>>, NULL)
  /\ UNCHANGED <<geom, ctr, hist, tools>>

RemoveFromSelection(id) ==
  /\ selectedIds' = selectedIds \ {id}
  /\ selectedType' = IF selectedIds \ {id} = {} THEN "null" ELSE selectedType
  /\ lastOp' = Call("removeFromSelection", <<id>>, <<>>, NULL)
  /\ UNCHANGED <<geom, ctr, hist, tools>>

ClearSelection ==
  /\ selectedIds' = {}
  /\ selectedType' = "null"
  /\ lastOp' = Call("clearSelection", <<>>, <<>>, NULL)
  /\ UNCHANGED <<geom, ctr, hist, tools>>

StartDrawing(vertexId) ==
  /\ isDrawing' = TRUE
  /\ drawStartVertexId' = vertexId
  /\ lastOp' = Call("startDrawing", <<vertexId>>, <<>>, NULL)
  /\ UNCHANGED <<geom, ctr, hist, sel, activeTool, rectangle, circle, arc, previewPoint>>

FinishDrawing ==
  /\ isDrawing' = FALSE
  /\ drawStartVertexId' = NULL
  /\ previewPoint' = <<>>
  /\ lastOp' = Call("finishDrawing", <<>>, <<>>, NULL)
  /\ UNCHANGED <<geom, ctr, hist, sel, activeTool, rectangle, circle, arc>>

CancelDrawing ==
  /\ isDrawing' = FALSE
  /\ drawStartVertexId' = NULL
  /\ previewPoint' = <<>>
  /\ lastOp' = Call("cancelDrawing", <<>>, <<>>, NULL)
  /\ UNCHANGED <<geom, ctr, hist, sel, activeTool, rectangle, circle, arc>>

\* the ids handed out so far are not handed out again: ctr stays
ClearScene ==
  /\ vertices' = <<>>
  /\ edges' = <<>>
  /\ faces' = <<>>
  /\ selectedIds' = {}
  /\ selectedType' = "null"
  /\ isDrawing' = FALSE
  /\ drawStartVertexId' = NULL
  /\ previewPoint' = <<>>
  /\ rectangleStartPoint' = <<>>
  /\ rectanglePreviewCorners' = <<>>
  /\ rectangleIsVertical' = FALSE
  /\ circleCenter' = <<>>
  /\ circlePreviewVertices' = <<>>
  /\ arcCenter' = <<>>
  /\ arcRadius' = RInt(0)
  /\ arcStartAngle' = <<>>
  /\ arcEndAngle' = <<>>
  /\ arcPreviewVertices' = <<>>
  /\ history' = <<>>
  /\ historyIndex' = -1
  /\ lastOp' = Call("clearScene", <<>>, <<>>, NULL)
  /\ UNCHANGED <<ctr, activeTool>>

(* ---- history ---- *)

maxHistory == 50

\* the deep copy of the three collections
Snapshot == [vertices |-> vertices, edges |-> edges, faces |-> faces]

\* a step in the history that leaves the collections as they are
Unrestored(snapshot) == UNCHANGED <<geom, selectedIds>>

Restore(snapshot) ==
  /\ vertices' = snapshot.vertices
  /\ edges' = snapshot.edges
  /\ faces' = snapshot.faces
  /\ selectedIds' = {}

SaveToHistory ==
  LET newHistory == Append(SubSeq(history, 1, historyIndex + 1), Snapshot)
      kept == IF Len(newHistory) > maxHistory THEN Tail(newHistory) ELSE newHistory
  IN  /\ history' = kept
      /\ historyIndex' = Len(kept) - 1
      /\ lastOp' = Call("saveToHistory", <<>>, <<>>, NULL)
      /\ UNCHANGED <<geom, ctr, sel, tools>>

Undo ==
  /\ lastOp' = Call("undo", <<>>, <<>>, NULL)
  /\ UNCHANGED <<ctr, selectedType, tools>>
  /\ IF historyIndex < 0
     THEN UNCHANGED <<geom, hist, selectedIds>>
     ELSE LET pushed == IF historyIndex = Len(history) - 1
                        THEN Append(history, Snapshot)
                        ELSE history
          IN  /\ history' = pushed
              /\ IF historyIndex > 0
                 THEN /\ historyIndex' = historyIndex - 1
                      /\ Restore(pushed[historyIndex])
                 ELSE UNCHANGED <<geom, historyIndex, selectedIds>>

Redo ==
  /\ lastOp' = Call("redo", <<>>, <<>>, NULL)
  /\ UNCHANGED <<ctr, selectedType, history, tools>>
  /\ IF historyIndex >= Len(history) - 1
     THEN UNCHANGED <<geom, historyIndex, selectedIds>>
     ELSE /\ historyIndex' = historyIndex + 1
          /\ Restore(history[historyIndex + 2])

(* ------------------------------ the driver ----------------------------- *)
(* The store is driven by its callers (the drawing tools, the assistant).   *)
(* A run makes the calls of one session in order (plan) and may at any      *)
(* point leave the session and make up to MaxFree calls of any operation    *)
(* with any argument of the input sets below.                               *)

MaxFree == 1

Pt(x, y, z) == <<x, y, z>>
Q(n, d) == Rat(n, d)

\* a unit square in the ground plane, two points close to its first two corners,
\* and a point off the plane
P1 == Vec(0, 0, 0)
P2 == Vec(1, 0, 0)
P3 == Vec(1, 0, 1)
P4 == Vec(0, 0, 1)
P5 == Pt(Q(0, 1), Q(0, 1), Q(1, 256))
P6 == Pt(Q(1, 1), Q(0, 1), Q(33, 256))
P7 == Vec(0, 1, 0)
P8 == Vec(32, 0, 0)
\* the midpoint of the first side of the square
P9 == Pt(Q(1, 2), Q(0, 1), Q(0, 1))

Step(op, ids, pos) == [op |-> op, ids |-> ids, pos |-> pos]
V(n) == VId(n)

Session ==
  << Step("addVertex", <<>>, <<P1>>), Step("addVertex", <<>>, <<P2>>),
     Step("addVertex", <<>>, <<P3>>), Step("addVertex", <<>>, <<P4>>),
     Step("addEdge", <<V(1), V(2)>>, <<>>), Step("addEdge", <<V(2), V(3)>>, <<>>),
     Step("addEdge", <<V(3), V(4)>>, <<>>), Step("saveToHistory", <<>>, <<>>),
     Step("addEdge", <<V(4), V(1)>>, <<>>), Step("saveToHistory", <<>>, <<>>),
     Step("addEdge", <<V(1), V(3)>>, <<>>), Step("undo", <<>>, <<>>),
     Step("addVertex", <<>>, <<P5>>), Step("addVertex", <<>>, <<P6>>),
     Step("addEdge", <<V(5), V(6)>>, <<>>), Step("addEdge", <<V(6), V(5)>>, <<>>) >>

\* a quad that is closed, opened by deleting a selected edge and closed again, then
\* a selected corner deleted and a triangle face added twice over the remaining
\* corners; the type of a setSelection step stands where the positions do
Rework ==
  << Step("addVertex", <<>>, <<P1>>), Step("addVertex", <<>>, <<P2>>),
     Step("addVertex", <<>>, <<P3>>), Step("addVertex", <<>>, <<P4>>),
     Step("addEdge", <<V(1), V(2)>>, <<>>), Step("addEdge", <<V(2), V(3)>>, <<>>),
     Step("addEdge", <<V(3), V(4)>>, <<>>), Step("addEdge", <<V(4), V(1)>>, <<>>),
     Step("setSelection", <<EId(4), EId(1)>>, <<"edge">>),
     Step("deleteEdge", <<EId(4)>>, <<>>), Step("addEdge", <<V(1), V(4)>>, <<>>),
     Step("setSelection", <<V(1), V(2)>>, <<"vertex">>),
     Step("deleteVertex", <<V(1)>>, <<>>),
     Step("addFace", <<V(2), V(3), V(4)>>, <<>>),
     Step("addFace", <<V(2), V(3), V(4)>>, <<>>) >>

\* a circle of radius 32 about P1 with a chord across a quarter of it, and an arc
\* of the same radius about P8 previewed with no sweep and then with a sweep of
\* three steps; the ids of an updateArcPreview step are its two angles
Curves ==
  << Step("startCircle", <<>>, <<P1>>), Step("updateCirclePreview", <<>>, <<P8>>),
     Step("finishCircle", <<>>, <<>>), Step("addEdge", <<V(1), V(7)>>, <<>>),
     Step("startArc", <<>>, <<P8>>), Step("updateArcPreview", <<0, 0>>, <<P1>>),
     Step("updateArcPreview", <<0, 3>>, <<P1>>), Step("finishArc", <<>>, <<>>) >>

\* two vertices at the same place and two more; queries for the vertex nearest to
\* a point, with ties and with a vertex exactly at the threshold; then a triangle
\* face, one of whose corners is moved off its plane
Snapping ==
  << Step("addVertex", <<>>, <<P1>>), Step("addVertex", <<>>, <<P2>>),
     Step("addVertex", <<>>, <<P1>>), Step("addVertex", <<>>, <<P3>>),
     Step("findNearbyVertex", <<Q(3, 10)>>, <<P1>>),
     Step("findNearbyVertex", <<Q(3, 2)>>, <<P9>>),
     Step("findNearbyVertex", <<Q(1, 2)>>, <<P9>>),
     Step("findNearbyVertex", <<Q(3, 10)>>, <<P9>>),
     Step("addEdge", <<V(1), V(2)>>, <<>>), Step("addEdge", <<V(2), V(4)>>, <<>>),
     Step("addEdge", <<V(4), V(1)>>, <<>>),
     Step("updateVertexPosition", <<V(4)>>, <<P7>>),
     Step("updateVertexPosition", <<V(0)>>, <<P7>>) >>

\* two segments that cross at the origin, each between two new vertices
X1 == Vec(-5, 0, 0)
X2 == Vec(5, 0, 0)
X3 == Vec(0, 0, -5)
X4 == Vec(0, 0, 5)
Crossing ==
  << Step("addVertex", <<>>, <<X1>>), Step("addVertex", <<>>, <<X2>>),
     Step("addEdge", <<V(1), V(2)>>, <<>>),
     Step("addVertex", <<>>, <<X3>>), Step("addVertex", <<>>, <<X4>>),
     Step("addEdge", <<V(3), V(4)>>, <<>>) >>

\* the square with its first corner raised out of the ground plane
R1 == Vec(0, 5, 0)
Raised ==
  << Step("addVertex", <<>>, <<R1>>), Step("addVertex", <<>>, <<P2>>),
     Step("addVertex", <<>>, <<P3>>), Step("addVertex", <<>>, <<P4>>),
     Step("addEdge", <<V(1), V(2)>>, <<>>), Step("addEdge", <<V(2), V(3)>>, <<>>),
     Step("addEdge", <<V(3), V(4)>>, <<>>), Step("addEdge", <<V(4), V(1)>>, <<>>) >>

\* a loop of four whose second vertex is 1 away from the plane of the other three,
\* while its first vertex is less than 0.01 away from the plane of the other three
W1 == Pt(Q(1, 2), Q(0, 1), Q(1, 8))
W2 == Vec(0, 1, 16)
Warped ==
  << Step("addVertex", <<>>, <<W1>>), Step("addVertex", <<>>, <<W2>>),
     Step("addVertex", <<>>, <<P1>>), Step("addVertex", <<>>, <<P2>>),
     Step("addEdge", <<V(1), V(2)>>, <<>>), Step("addEdge", <<V(2), V(3)>>, <<>>),
     Step("addEdge", <<V(3), V(4)>>, <<>>), Step("addEdge", <<V(4), V(1)>>, <<>>) >>

\* the square with the diagonal between its second and fourth corners drawn before
\* its fourth side
Chorded ==
  << Step("addVertex", <<>>, <<P1>>), Step("addVertex", <<>>, <<P2>>),
     Step("addVertex", <<>>, <<P3>>), Step("addVertex", <<>>, <<P4>>),
     Step("addEdge", <<V(1), V(2)>>, <<>>), Step("addEdge", <<V(2), V(3)>>, <<>>),
     Step("addEdge", <<V(3), V(4)>>, <<>>), Step("addEdge", <<V(2), V(4)>>, <<>>),
     Step("addEdge", <<V(4), V(1)>>, <<>>) >>

\* nine points around a convex outline in the ground plane, joined in a ring
RingPoints ==
  << Vec(0, 0, 0), Vec(1, 0, 0), Vec(2, 0, 0), Vec(3, 0, 0), Vec(3, 0, 1),
     Vec(3, 0, 2), Vec(2, 0, 3), Vec(1, 0, 3), Vec(0, 0, 2) >>
Nonagon ==
  [i \in 1..Len(RingPoints) |-> Step("addVertex", <<>>, <<RingPoints[i]>>)]
  \o [i \in 1..Len(RingPoints) |->
        Step("addEdge", <<V(i), V((i % Len(RingPoints)) + 1)>>, <<>>)]

\* a loop of five that starts along a straight line and then leaves the ground
\* plane: no plane is near all five
B3 == Vec(2, 0, 0)
B4 == Vec(2, 0, 1)
B5 == Vec(0, 1, 1)
Bent ==
  << Step("addVertex", <<>>, <<P1>>), Step("addVertex", <<>>, <<P2>>),
     Step("addVertex", <<>>, <<B3>>), Step("addVertex", <<>>, <<B4>>),
     Step("addVertex", <<>>, <<B5>>),
     Step("addEdge", <<V(1), V(2)>>, <<>>), Step("addEdge", <<V(2), V(3)>>, <<>>),
     Step("addEdge", <<V(3), V(4)>>, <<>>), Step("addEdge", <<V(4), V(5)>>, <<>>),
     Step("addEdge", <<V(1), V(5)>>, <<>>) >>

\* two parallel edges close together, the second drawn first, and a segment that
\* rises slowly from a point just above them, so that each is found to meet it
G1 == Pt(Q(0, 1), Q(0, 1), Q(-1, 512))
G2 == Pt(Q(1, 1), Q(0, 1), Q(-1, 512))
G3 == Pt(Q(0, 1), Q(0, 1), Q(1, 512))
G4 == Pt(Q(1, 1), Q(0, 1), Q(33, 512))
Grazing ==
  << Step("addVertex", <<>>, <<G1>>), Step("addVertex", <<>>, <<G2>>),
     Step("addEdge", <<V(1), V(2)>>, <<>>),
     Step("addVertex", <<>>, <<P1>>), Step("addVertex", <<>>, <<P2>>),
     Step("addEdge", <<V(3), V(4)>>, <<>>),
     Step("addVertex", <<>>, <<G3>>), Step("addVertex", <<>>, <<G4>>),
     Step("addEdge", <<V(5), V(6)>>, <<>>) >>

Sessions ==
  {Session, Rework, Curves, Snapping, Crossing, Raised, Warped, Chorded, Nonagon, Bent,
   Grazing}

FreePositions == {P1, P7}
VertexIdInputs == Ids(vertices) \cup {V(0)}
\* free addEdge and addFace calls take the ids of the first MaxPick vertices and
\* an unknown id; free addEdge calls join vertices with whole-number coordinates
MaxPick == 4
PickedIdInputs ==
  {vertices[i].id : i \in 1..(IF Len(vertices) < MaxPick THEN Len(vertices)
                                                         ELSE MaxPick)} \cup {V(0)}
OnGrid(id) ==
  Has(vertices, id) => \A k \in 1..3 : Get(vertices, id).position[k][2] = 1
GridIdInputs == {id \in PickedIdInputs : OnGrid(id)}
EdgeIdInputs == Ids(edges) \cup {EId(0)}
FaceInputs ==
  {<<a, b, c>> : a \in PickedIdInputs, b \in PickedIdInputs, c \in PickedIdInputs}
    \cup {<<a, a>> : a \in PickedIdInputs}
SelectionInputs == {<<>>, <<V(1)>>}
\* the tools are given points on the x axis, 0 or 32 apart, so that every radius
\* is a whole number, and so is every coordinate on a circle
ToolPoints == {P1, P8}
AngleInputs == {<<0, 0>>, <<0, 3>>, <<6, 0>>}
\* the default threshold 0.3 of findNearbyVertex and the distance of P9 from the
\* corners next to it
Thresholds == {Q(3, 10), Q(1, 2)}
SnapPoints == {P1, P9}

Start ==
  /\ vertices = <<>>
  /\ edges = <<>>
  /\ faces = <<>>
  /\ ctr = EmptyStore.ctr
  /\ history = <<>>
  /\ historyIndex = -1
  /\ selectedIds = {}
  /\ selectedType = "null"
  /\ activeTool = "select"
  /\ rectangleStartPoint = <<>>
  /\ rectanglePreviewCorners = <<>>
  /\ rectangleIsVertical = FALSE
  /\ circleCenter = <<>>
  /\ circlePreviewVertices = <<>>
  /\ arcCenter = <<>>
  /\ arcRadius = RInt(0)
  /\ arcStartAngle = <<>>
  /\ arcEndAngle = <<>>
  /\ arcPreviewVertices = <<>>
  /\ isDrawing = FALSE
  /\ drawStartVertexId = NULL
  /\ previewPoint = <<>>
  /\ lastOp = Call("init", <<>>, <<>>, NULL)
  /\ update = <<>>
  /\ free = 0
  /\ noted = [saved |-> <<>>, undone |-> <<>>]

Init == Start /\ plan \in Sessions

\* the call the session makes next, if it is one of op
Planned(op) ==
  IF plan # <<>> /\ free = 0 /\ Head(plan).op = op THEN {Head(plan)} ELSE {}
\* the calls that may be made outside the session
Free(calls) == IF free < MaxFree THEN calls ELSE {}
\* what the driver notes of the store when it makes a call: the collections in
\* which it last called saveToHistory, until it steps in the history or clears the
\* scene, and the collections in which it called undo, until its next call
Note(op) ==
  [saved |-> IF op = "saveToHistory" THEN <<Snapshot>>
             ELSE IF op \in {"undo", "redo", "clearScene"} THEN <<>>
             ELSE noted.saved,
   undone |-> IF op = "undo" THEN <<Snapshot>> ELSE <<>>]
Advance(c) ==
  /\ noted' = Note(c.op)
  /\ IF plan # <<>> /\ free = 0 /\ Head(plan).op = c.op /\ Head(plan) = c
     THEN plan' = Tail(plan) /\ free' = free
     ELSE plan' = <<>> /\ free' = free + 1
\* a call that runs from its first step to its last in one step of the model
Drive(c) == Advance(c) /\ update = <<>> /\ UNCHANGED update

Free0(op) == Free({Step(op, <<>>, <<>>)})
FreeP(op, points) == Free({Step(op, <<>>, <<p>>) : p \in points})

Next ==
  \/ \E c \in Planned("addVertex") \cup FreeP("addVertex", FreePositions) :
       Drive(c) /\ AddVertex(c.pos[1])
  \/ \E c \in Planned("addEdge")
              \cup Free({Step("addEdge", <<a, b>>, <<>>) :
                           a \in GridIdInputs, b \in GridIdInputs}) :
       Drive(c) /\ AddEdge(c.ids[1], c.ids[2])
  \/ \E c \in Planned("updateVertexPosition")
              \cup Free({Step("updateVertexPosition", <<id>>, <<p>>) :
                           id \in PickedIdInputs, p \in FreePositions}) :
       Drive(c) /\ UpdateVertexPosition(c.ids[1], c.pos[1])
  \/ \E c \in Planned("findNearbyVertex")
              \cup Free({Step("findNearbyVertex", <<t>>, <<p>>) :
                           t \in Thresholds, p \in SnapPoints}) :
       Drive(c) /\ FindNearbyVertex(c.pos[1], c.ids[1])
  \/ \E c \in Planned("deleteVertex")
              \cup Free({Step("deleteVertex", <<id>>, <<>>) : id \in VertexIdInputs}) :
       Drive(c) /\ DeleteVertex(c.ids[1])
  \/ \E c \in Planned("deleteEdge")
              \cup Free({Step("deleteEdge", <<id>>, <<>>) : id \in EdgeIdInputs}) :
       Drive(c) /\ DeleteEdge(c.ids[1])
  \/ \E c \in Planned("addFace")
              \cup Free({Step("addFace", ids, <<>>) : ids \in FaceInputs}) :
       Drive(c) /\ AddFace(c.ids)
  \/ \E c \in Planned("setSelection")
              \cup Free({Step("setSelection", ids, <<"vertex">>) :
                           ids \in SelectionInputs}) :
       Drive(c) /\ SetSelection(c.ids, c.pos[1])
  \/ \E c \in Planned("saveToHistory") \cup Free0("saveToHistory") :
       Drive(c) /\ SaveToHistory
  \/ \E c \in Planned("undo") \cup Free0("undo") : Drive(c) /\ Undo
  \/ \E c \in Planned("redo") \cup Free0("redo") : Drive(c) /\ Redo
  \/ \E c \in Planned("startCircle") \cup FreeP("startCircle", ToolPoints) :
       Drive(c) /\ StartCircle(c.pos[1])
  \/ \E c \in Planned("updateCirclePreview")
              \cup FreeP("updateCirclePreview", ToolPoints) :
       Drive(c) /\ UpdateCirclePreview(c.pos[1])
  \/ \E c \in Planned("finishCircle") \cup Free0("finishCircle") :
       Drive(c) /\ FinishCircle
  \/ \E c \in Planned("startArc") \cup FreeP("startArc", ToolPoints) :
       Drive(c) /\ StartArc(c.pos[1])
  \/ \E c \in Planned("updateArcPreview")
              \cup Free({Step("updateArcPreview", a, <<p>>) :
                           a \in AngleInputs, p \in ToolPoints}) :
       Drive(c) /\ UpdateArcPreview(c.pos[1], c.ids[1], c.ids[2])
  \/ \E c \in Planned("finishArc") \cup Free0("finishArc") :
       Drive(c) /\ FinishArc

Spec == Init /\ [][Next]_vars

(* --------------------------- a long history ---------------------------- *)
(* A session that saves after each of maxHistory + 1 vertices and then      *)
(* steps back and forth in the history; free calls as above.                *)

Saves == maxHistory + 1
Deep ==
  [i \in 1..(2 * Saves) |->
     IF i % 2 = 1 THEN Step("addVertex", <<>>, <<P1>>)
     ELSE Step("saveToHistory", <<>>, <<>>)]
  \o << Step("undo", <<>>, <<>>), Step("redo", <<>>, <<>>),
        Step("redo", <<>>, <<>>), Step("undo", <<>>, <<>>) >>

HistoryInit == Start /\ plan = Deep

HistoryNext ==
  \/ \E c \in Planned("addVertex") \cup FreeP("addVertex", FreePositions) :
       Drive(c) /\ AddVertex(c.pos[1])
  \/ \E c \in Planned("saveToHistory") \cup Free0("saveToHistory") :
       Drive(c) /\ SaveToHistory
  \/ \E c \in Planned("undo") \cup Free0("undo") : Drive(c) /\ Undo
  \/ \E c \in Planned("redo") \cup Free0("redo") : Drive(c) /\ Redo

HistorySpec == HistoryInit /\ [][HistoryNext]_vars

(* ------------------------------ snap queries --------------------------- *)
(* A session that places three corners of the unit square and then asks     *)
(* for snaps; free calls of the queries with the inputs below.               *)

Ray(origin, direction) == [origin |-> origin, direction |-> direction]
Down == Vec(0, -1, 0)
\* rays straight down: onto P1, between P1 and P2, 1.5 beyond P2, far from all
\* vertices, 0.3 beside the x axis; a ray slanting down onto P1, and a ray that
\* leaves the ground
RayInputs ==
  { Ray(Vec(0, 10, 0), Down), Ray(Pt(Q(1, 2), Q(10, 1), Q(0, 1)), Down),
    Ray(Pt(Q(5, 2), Q(10, 1), Q(0, 1)), Down), Ray(Vec(7, 10, 7), Down),
    Ray(Pt(Q(4, 1), Q(10, 1), Q(3, 10)), Down),
    Ray(Vec(-6, 8, 0), Pt(Q(3, 5), Q(-4, 5), Q(0, 1))),
    Ray(Vec(0, 10, 0), Vec(0, 1, 0)) }
SnapArgs(ray, startPoint, excludeVertexId, gridSize, snapEnabled) ==
  [ray |-> ray, startPoint |-> startPoint, excludeVertexId |-> excludeVertexId,
   gridSize |-> gridSize, snapEnabled |-> snapEnabled]
SnapInputs ==
  {SnapArgs(ray, startPoint, excludeVertexId, RInt(1), snapEnabled) :
     ray \in RayInputs, startPoint \in {<<>>, <<P1>>},
     excludeVertexId \in {NULL, V(1), V(2)}, snapEnabled \in BOOLEAN}
\* end points along the x axis and up to a little more than 15 degrees off it, from
\* 0.05 to 10 away
EndPoints ==
  {Pt(x, y, z) : x \in {Q(1, 20), Q(1, 1), Q(10, 1), Q(-10, 1), Q(7, 2)},
                 y \in {Q(0, 1), Q(1, 160), Q(1, 2), Q(1, 1), Q(3, 1)},
                 z \in {Q(0, 1), Q(1, 1), Q(-1, 2)}}
AxisArgs(gridSize, snapEnabled) == [gridSize |-> gridSize, snapEnabled |-> snapEnabled]
AxisInputs == {AxisArgs(g, e) : g \in {Q(1, 1), Q(1, 2)}, e \in BOOLEAN}
GridValues == {Q(n, d) : n \in (-7)..7, d \in {1, 2, 4, 10}}
GridSizes == {Q(1, 1), Q(1, 2), Q(3, 10), Q(2, 1)}

Probing ==
  << Step("addVertex", <<>>, <<P1>>), Step("addVertex", <<>>, <<P2>>),
     Step("addVertex", <<>>, <<P4>>),
     Step("computeSnap", SnapArgs(Ray(Vec(0, 10, 0), Down), <<>>, NULL, Q(1, 1), TRUE),
          <<>>),
     Step("computeSnap", SnapArgs(Ray(Vec(0, 10, 0), Down), <<P1>>, V(1), Q(1, 1), TRUE),
          <<>>),
     Step("inferAxis", AxisArgs(Q(1, 1), TRUE), <<P1, Pt(Q(10, 1), Q(1, 1), Q(1, 1))>>),
     Step("snapToGrid", <<>>, <<Q(7, 4), Q(1, 2)>>) >>

SnapInit == Start /\ plan = Probing

SnapNext ==
  \/ \E c \in Planned("addVertex") \cup FreeP("addVertex", FreePositions) :
       Drive(c) /\ AddVertex(c.pos[1])
  \/ \E c \in Planned("snapToGrid")
              \cup Free({Step("snapToGrid", <<>>, <<v, g>>) :
                           v \in GridValues, g \in GridSizes}) :
       Drive(c) /\ SnapToGrid(c.pos[1], c.pos[2])
  \/ \E c \in Planned("inferAxis")
              \cup Free({Step("inferAxis", a, <<s, e>>) :
                           a \in AxisInputs, s \in FreePositions, e \in EndPoints}) :
       Drive(c) /\ InferAxis(c.pos[1], c.pos[2], c.ids)
  \/ \E c \in Planned("computeSnap")
              \cup Free({Step("computeSnap", a, <<>>) : a \in SnapInputs}) :
       Drive(c) /\ ComputeSnap(c.ids)

SnapSpec == SnapInit /\ [][SnapNext]_vars

(* ---------------------------- the drawing tools ------------------------ *)
(* Sessions of the multi-click tools: each tool started, previewed,          *)
(* cancelled and finished, with and without a preview, with previews of no   *)
(* area and of some; free calls of the tools' operations with the inputs     *)
(* below.                                                                    *)

ToolNames == {"select", "rectangle", "circle", "arc"}
RectanglePoints == {P1, P2, P3}
Heights == {Q(0, 1), Q(2, 1)}

\* a vertex and a saved history, then the rectangle tool: a cancel before and
\* after a preview, a finish with no preview, with a preview of no depth, with a
\* wall of no height, with a floor and with a wall
Rectangles ==
  << Step("addVertex", <<>>, <<P7>>), Step("saveToHistory", <<>>, <<>>),
     Step("setActiveTool", <<"rectangle">>, <<>>),
     Step("startRectangle", <<>>, <<P1>>), Step("cancelRectangle", <<>>, <<>>),
     Step("startRectangle", <<>>, <<P1>>),
     Step("updateRectanglePreview", <<Q(0, 1), FALSE>>, <<P3>>),
     Step("cancelRectangle", <<>>, <<>>),
     Step("startRectangle", <<>>, <<P1>>), Step("finishRectangle", <<>>, <<>>),
     Step("startRectangle", <<>>, <<P1>>),
     Step("updateRectanglePreview", <<Q(0, 1), FALSE>>, <<P2>>),
     Step("finishRectangle", <<>>, <<>>),
     Step("startRectangle", <<>>, <<P1>>),
     Step("updateRectanglePreview", <<Q(0, 1), TRUE>>, <<P3>>),
     Step("finishRectangle", <<>>, <<>>),
     Step("startRectangle", <<>>, <<P1>>),
     Step("updateRectanglePreview", <<Q(0, 1), FALSE>>, <<P3>>),
     Step("finishRectangle", <<>>, <<>>),
     Step("startRectangle", <<>>, <<P7>>),
     Step("updateRectanglePreview", <<Q(2, 1), TRUE>>, <<P3>>),
     Step("finishRectangle", <<>>, <<>>) >>

\* a vertex and a saved history, then the circle and the arc tool: a preview
\* cancelled, and a finish with no preview
Rounds ==
  << Step("addVertex", <<>>, <<P7>>), Step("saveToHistory", <<>>, <<>>),
     Step("setActiveTool", <<"circle">>, <<>>),
     Step("startCircle", <<>>, <<P1>>), Step("updateCirclePreview", <<>>, <<P8>>),
     Step("cancelCircle", <<>>, <<>>),
     Step("startCircle", <<>>, <<P1>>), Step("finishCircle", <<>>, <<>>),
     Step("setActiveTool", <<"arc">>, <<>>),
     Step("startArc", <<>>, <<P8>>), Step("updateArcPreview", <<0, 3>>, <<P1>>),
     Step("cancelArc", <<>>, <<>>),
     Step("startArc", <<>>, <<P8>>), Step("finishArc", <<>>, <<>>) >>

ToolInit == Start /\ plan \in {Rectangles, Rounds}

ToolNext ==
  \/ \E c \in Planned("addVertex") \cup FreeP("addVertex", FreePositions) :
       Drive(c) /\ AddVertex(c.pos[1])
  \/ \E c \in Planned("saveToHistory") \cup Free0("saveToHistory") :
       Drive(c) /\ SaveToHistory
  \/ \E c \in Planned("setActiveTool")
              \cup Free({Step("setActiveTool", <<t>>, <<>>) : t \in ToolNames}) :
       Drive(c) /\ SetActiveTool(c.ids[1])
  \/ \E c \in Planned("startRectangle") \cup FreeP("startRectangle", RectanglePoints) :
       Drive(c) /\ StartRectangle(c.pos[1])
  \/ \E c \in Planned("updateRectanglePreview")
              \cup Free({Step("updateRectanglePreview", <<h, b>>, <<p>>) :
                           h \in Heights, b \in BOOLEAN, p \in RectanglePoints}) :
       Drive(c) /\ UpdateRectanglePreview(c.pos[1], c.ids[1], c.ids[2])
  \/ \E c \in Planned("finishRectangle") \cup Free0("finishRectangle") :
       Drive(c) /\ FinishRectangle
  \/ \E c \in Planned("cancelRectangle") \cup Free0("cancelRectangle") :
       Drive(c) /\ CancelRectangle
  \/ \E c \in Planned("startCircle") \cup FreeP("startCircle", ToolPoints) :
       Drive(c) /\ StartCircle(c.pos[1])
  \/ \E c \in Planned("updateCirclePreview")
              \cup FreeP("updateCirclePreview", ToolPoints) :
       Drive(c) /\ UpdateCirclePreview(c.pos[1])
  \/ \E c \in Planned("finishCircle") \cup Free0("finishCircle") :
       Drive(c) /\ FinishCircle
  \/ \E c \in Planned("cancelCircle") \cup Free0("cancelCircle") :
       Drive(c) /\ CancelCircle
  \/ \E c \in Planned("startArc") \cup FreeP("startArc", ToolPoints) :
       Drive(c) /\ StartArc(c.pos[1])
  \/ \E c \in Planned("updateArcPreview")
              \cup Free({Step("updateArcPreview", a, <<p>>) :
                           a \in AngleInputs, p \in ToolPoints}) :
       Drive(c) /\ UpdateArcPreview(c.pos[1], c.ids[1], c.ids[2])
  \/ \E c \in Planned("finishArc") \cup Free0("finishArc") :
       Drive(c) /\ FinishArc
  \/ \E c \in Planned("cancelArc") \cup Free0("cancelArc") :
       Drive(c) /\ CancelArc

ToolSpec == ToolInit /\ [][ToolNext]_vars

(* ------------------------------- editing ------------------------------- *)
(* Two sessions of the select and line tools: one that selects, draws lines *)
(* and deletes, one that steps back and forth in the history and clears the *)
(* scene; free calls as above. startDrawing is given vertices of the store, *)
(* as the line tool gives it.                                               *)

Editing ==
  << Step("addVertex", <<>>, <<P1>>), Step("addVertex", <<>>, <<P2>>),
     Step("addEdge", <<V(1), V(2)>>, <<>>), Step("saveToHistory", <<>>, <<>>),
     Step("addVertex", <<>>, <<P3>>),
     Step("setSelection", <<V(1)>>, <<"vertex">>),
     Step("addToSelection", <<V(2)>>, <<"vertex">>),
     Step("removeFromSelection", <<V(2)>>, <<>>),
     Step("addToSelection", <<EId(1)>>, <<"edge">>),
     Step("setActiveTool", <<"line">>, <<>>),
     Step("startDrawing", <<V(3)>>, <<>>), Step("deleteVertex", <<V(3)>>, <<>>),
     Step("cancelDrawing", <<>>, <<>>),
     Step("startDrawing", <<V(2)>>, <<>>), Step("finishDrawing", <<>>, <<>>),
     Step("deleteEdge", <<EId(1)>>, <<>>), Step("clearSelection", <<>>, <<>>),
     Step("saveToHistory", <<>>, <<>>), Step("undo", <<>>, <<>>),
     Step("redo", <<>>, <<>>), Step("clearScene", <<>>, <<>>) >>

Stepping ==
  << Step("addVertex", <<>>, <<P1>>), Step("saveToHistory", <<>>, <<>>),
     Step("addVertex", <<>>, <<P2>>), Step("saveToHistory", <<>>, <<>>),
     Step("addVertex", <<>>, <<P3>>), Step("undo", <<>>, <<>>),
     Step("redo", <<>>, <<>>), Step("redo", <<>>, <<>>),
     Step("undo", <<>>, <<>>), Step("undo", <<>>, <<>>), Step("undo", <<>>, <<>>),
     Step("redo", <<>>, <<>>), Step("addVertex", <<>>, <<P4>>),
     Step("saveToHistory", <<>>, <<>>), Step("redo", <<>>, <<>>),
     Step("undo", <<>>, <<>>), Step("clearScene", <<>>, <<>>),
     Step("undo", <<>>, <<>>), Step("redo", <<>>, <<>>) >>

EditTools == {"select", "line"}
EntityInputs ==
  {Step("addToSelection", <<id>>, <<"vertex">>) : id \in VertexIdInputs}
    \cup {Step("addToSelection", <<id>>, <<"edge">>) : id \in EdgeIdInputs}

EditInit == Start /\ plan \in {Editing, Stepping}

EditNext ==
  \/ \E c \in Planned("addVertex") \cup FreeP("addVertex", FreePositions) :
       Drive(c) /\ AddVertex(c.pos[1])
  \/ \E c \in Planned("addEdge")
              \cup Free({Step("addEdge", <<a, b>>, <<>>) :
                           a \in GridIdInputs, b \in GridIdInputs}) :
       Drive(c) /\ AddEdge(c.ids[1], c.ids[2])
  \/ \E c \in Planned("deleteVertex")
              \cup Free({Step("deleteVertex", <<id>>, <<>>) : id \in VertexIdInputs}) :
       Drive(c) /\ DeleteVertex(c.ids[1])
  \/ \E c \in Planned("deleteEdge")
              \cup Free({Step("deleteEdge", <<id>>, <<>>) : id \in EdgeIdInputs}) :
       Drive(c) /\ DeleteEdge(c.ids[1])
  \/ \E c \in Planned("setSelection")
              \cup Free({Step("setSelection", ids, <<"vertex">>) :
                           ids \in SelectionInputs}) :
       Drive(c) /\ SetSelection(c.ids, c.pos[1])
  \/ \E c \in Planned("addToSelection") \cup Free(EntityInputs) :
       Drive(c) /\ AddToSelection(c.ids[1], c.pos[1])
  \/ \E c \in Planned("removeFromSelection")
              \cup Free({Step("removeFromSelection", <<id>>, <<>>) :
                           id \in VertexIdInputs \cup EdgeIdInputs}) :
       Drive(c) /\ RemoveFromSelection(c.ids[1])
  \/ \E c \in Planned("clearSelection") \cup Free0("clearSelection") :
       Drive(c) /\ ClearSelection
  \/ \E c \in Planned("setActiveTool")
              \cup Free({Step("setActiveTool", <<t>>, <<>>) : t \in EditTools}) :
       Drive(c) /\ SetActiveTool(c.ids[1])
  \/ \E c \in Planned("startDrawing")
              \cup Free({Step("startDrawing", <<id>>, <<>>) : id \in Ids(vertices)}) :
       Drive(c) /\ StartDrawing(c.ids[1])
  \/ \E c \in Planned("finishDrawing") \cup Free0("finishDrawing") :
       Drive(c) /\ FinishDrawing
  \/ \E c \in Planned("cancelDrawing") \cup Free0("cancelDrawing") :
       Drive(c) /\ CancelDrawing
  \/ \E c \in Planned("saveToHistory") \cup Free0("saveToHistory") :
       Drive(c) /\ SaveToHistory
  \/ \E c \in Planned("undo") \cup Free0("undo") : Drive(c) /\ Undo
  \/ \E c \in Planned("redo") \cup Free0("redo") : Drive(c) /\ Redo
  \/ \E c \in Planned("clearScene") \cup Free0("clearScene") :
       Drive(c) /\ ClearScene

EditSpec == EditInit /\ [][EditNext]_vars

(* ------------------------------- drawing ------------------------------- *)
(* A store that is filled by addVertex and addEdge alone: the two segments  *)
(* that cross, the segment that grazes two edges, and the square with one   *)
(* diagonal, its five edges drawn in every order.                           *)

SquareEdges ==
  {<<V(1), V(2)>>, <<V(2), V(3)>>, <<V(3), V(4)>>, <<V(4), V(1)>>, <<V(2), V(4)>>}
\* the orders of the edges of a set: the lists that name each edge once
Orders(es) ==
  {o \in [1..Cardinality(es) -> es] : \A i, j \in DOMAIN o : o[i] = o[j] => i = j}
SquareDrawn(order) ==
  << Step("addVertex", <<>>, <<P1>>), Step("addVertex", <<>>, <<P2>>),
     Step("addVertex", <<>>, <<P3>>), Step("addVertex", <<>>, <<P4>>) >>
    \o [i \in DOMAIN order |-> Step("addEdge", order[i], <<>>)]
Drawings == {Crossing, Grazing} \cup {SquareDrawn(o) : o \in Orders(SquareEdges)}

DrawInit == Start /\ plan \in Drawings

DrawNext ==
  \/ \E c \in Planned("addVertex") \cup FreeP("addVertex", FreePositions) :
       Drive(c) /\ AddVertex(c.pos[1])
  \/ \E c \in Planned("addEdge")
              \cup Free({Step("addEdge", <<a, b>>, <<>>) :
                           a \in GridIdInputs, b \in GridIdInputs}) :
       Drive(c) /\ AddEdge(c.ids[1], c.ids[2])

DrawSpec == DrawInit /\ [][DrawNext]_vars

(* ----------------------------- store updates --------------------------- *)
(* Each operation of the store changes it inside set((state) => {...}) of  *)
(* the immer middleware: the statements of the function work on a draft of *)
(* the state, and the store takes the finished draft when the function     *)
(* returns.  Below a call is taken apart into the drafts its statements    *)
(* leave one after the other.                                              *)

Draft(st, selected) == [st |-> st, selectedIds |-> selected]
OnDraft(d, sts) == [i \in DOMAIN sts |-> [d EXCEPT !.st = sts[i]]]

\* store.ts addVertex 377-383
AddVertexMutations(d, position) == OnDraft(d, <<addVertex(d.st, position)>>)

\* store.ts deleteVertex 413-433: the connected edges, the vertex, the selection
DeleteVertexMutations(d, id) ==
  IF ~ Has(d.st.vertices, id) THEN <<>>
  ELSE LET st1 == DeleteConnected(d.st, id, Get(d.st.vertices, id).edges, 1)
           st2 == [st1 EXCEPT !.vertices = Delete(@, id)]
       IN  OnDraft(d, <<st1, st2>>)
           \o <<[st |-> st2, selectedIds |-> d.selectedIds \ {id}]>>

\* store.ts deleteEdge 652-666: the references of the two ends, the edge, the
\* selection
DeleteEdgeMutations(d, id) ==
  IF ~ Has(d.st.edges, id) THEN <<>>
  ELSE LET edge == Get(d.st.edges, id)
           st1 == [d.st EXCEPT
                     !.vertices = DropEdge(DropEdge(@, edge.vertices[1], id),
                                           edge.vertices[2], id)]
           st2 == [st1 EXCEPT !.edges = Delete(@, id)]
       IN  OnDraft(d, <<st1, st2>>)
           \o <<[st |-> st2, selectedIds |-> d.selectedIds \ {id}]>>

\* store.ts addEdge 504-514: the edge to split is taken out of the lists of its
\* two ends
DetachOldEdge(st, edgeId) ==
  IF ~ Has(st.edges, edgeId) THEN st
  ELSE
  LET edge == Get(st.edges, edgeId)
  IN  IF ~ Has(st.vertices, edge.vertices[1]) \/ ~ Has(st.vertices, edge.vertices[2])
      THEN st
      ELSE [st EXCEPT !.vertices = DropEdge(DropEdge(@, edge.vertices[1], edgeId),
                                            edge.vertices[2], edgeId)]

\* store.ts addEdge 484-575: the intersection vertices, the first edge to split
\* detached, all the edges split, the chain along the new line, the faces; each
\* step adds its draft to the drafts ms before it
AddEdgeSplitMutations(st, v1Id, v2Id, hits) ==
  LET sorted == SortByT(hits)
      k == Len(sorted)
      intersectionVertexIds == [i \in 1..k |-> VId(st.ctr.v + i - 1)]
      allVertexIds == <<v1Id>> \o intersectionVertexIds \o <<v2Id>>
      detach(ms) == Append(ms, DetachOldEdge(ms[1], sorted[1].edgeId))
      split(ms) == Append(ms, SplitAll(ms[1], sorted, intersectionVertexIds, 1))
      chain(ms) == Append(ms, AddChain(ms[3], allVertexIds, 1))
      detect(ms) ==
        Append(ms, DetectForChain(ms[4], [i \in 1..(k + 1) |->
                                            EId(ms[3].ctr.e + i - 1)]))
  IN  detect(chain(split(detach(
        <<AddIntersectionVertices([st EXCEPT !.ctr.e = @ + 1], sorted)>>))))

\* the ids of the faces that the edge from v1 to v2 subdivides
FacesToRemove(st, v1Id, v2Id) ==
  LET subdivided == SelectSeq(st.faces, LAMBDA f : IsSubdivided(st, f, v1Id, v2Id))
  IN  [i \in DOMAIN subdivided |-> subdivided[i].id]

\* store.ts addEdge 581-646: the edge, the subdivided faces removed, the faces made
AddEdgePlainMutations(st, v1Id, v2Id) ==
  LET id == EId(st.ctr.e)
      remove(ms) == Append(ms, RemoveFaces(ms[1], FacesToRemove(ms[1], v1Id, v2Id)))
      detect(ms) == Append(ms, detectAndCreateFaces(ms[2], v1Id, v2Id, id))
  IN  detect(remove(
        <<[st EXCEPT
             !.edges = Put(@, [id |-> id, vertices |-> <<v1Id, v2Id>>,
                               faces |-> <<>>, isConstruction |-> "false"]),
             !.vertices = PushEdge(PushEdge(@, v1Id, id), v2Id, id),
             !.ctr.e = @ + 1]>>))

\* store.ts addEdge 484, 580: the branch taken with the intersections found
AddEdgeBranchMutations(st, v1Id, v2Id, hits) ==
  IF Len(hits) > 0 THEN AddEdgeSplitMutations(st, v1Id, v2Id, hits)
  ELSE AddEdgePlainMutations(st, v1Id, v2Id)

\* store.ts addEdge 439-647
AddEdgeMutations(d, v1Id, v2Id) ==
  IF ~ Has(d.st.vertices, v1Id) \/ ~ Has(d.st.vertices, v2Id) THEN <<>>
  ELSE IF AlreadyJoined(d.st, v1Id, v2Id) THEN <<>>
  ELSE OnDraft(d, AddEdgeBranchMutations(
                    d.st, v1Id, v2Id,
                    Intersections(d.st, Get(d.st.vertices, v1Id).position,
                                  Get(d.st.vertices, v2Id).position)))

\* store.ts addFace 671-752: the edges found or made, the face, the references of
\* the edges to it; fe is the store with the edges, and their ids
AddFaceMutations(d, vertexIds) ==
  IF ~ AddFaceCreates(d.st, vertexIds) THEN <<>>
  ELSE
  LET faceId == FId(d.st.ctr.f)
      positions == [i \in DOMAIN vertexIds |-> Get(d.st.vertices, vertexIds[i]).position]
      face(fe) ==
        <<fe[1],
          [fe[1] EXCEPT
             !.faces = Put(@, [id |-> faceId, edges |-> fe[2],
                               normal |-> FaceNormal3(positions[1], positions[2],
                                                      positions[3])]),
             !.ctr.f = @ + 1]>>
      refs(ms, edgeIds) ==
        Append(ms, [ms[2] EXCEPT !.edges = PushFaceOnce(@, edgeIds, faceId)])
      all(fe) == refs(face(fe), fe[2])
  IN  OnDraft(d, all(FaceEdges(d.st, vertexIds, 1, <<>>)))

\* what the call returns to its caller
Returned(c, st) ==
  CASE c.op = "addVertex" -> VId(st.ctr.v)
    [] c.op = "addEdge" -> EId(st.ctr.e)
    [] c.op = "deleteVertex" -> NULL
    [] c.op = "deleteEdge" -> NULL
    [] c.op = "addFace" -> IF AddFaceCreates(st, c.ids) THEN FId(st.ctr.f) ELSE NULL

\* a middleware that hands the function the state itself
Exposed(state, next) == next

\* zustand/middleware/immer: what the store holds after a statement of the function
\* has turned the draft into next
Held(state, next) == state

\* the call is made: set((state) => ...) hands the function a draft of the state;
\* todo is the drafts that the statements of the function are going to leave
BeginUpdate(c, todo) ==
  /\ update = <<>>
  /\ update' = <<[call |-> c, done |-> 0, todo |-> todo,
                  base |-> Draft(Store, selectedIds),
                  draft |-> Draft(Store, selectedIds)]>>
  /\ Advance(c)
  /\ UNCHANGED <<geom, ctr, hist, sel, tools, lastOp>>

\* the next statement of the function
Mutate ==
  /\ update # <<>>
  /\ update[1].done < Len(update[1].todo)
  /\ update' = <<[update[1] EXCEPT !.done = @ + 1,
                                   !.draft = update[1].todo[update[1].done + 1]]>>
  /\ SetStore(Held(Store, update'[1].draft.st))
  /\ selectedIds' = Held(selectedIds, update'[1].draft.selectedIds)
  /\ UNCHANGED <<hist, selectedType, tools, lastOp, driver>>

\* the function returns: the store takes the draft and the call returns
Commit ==
  /\ update # <<>>
  /\ update[1].done = Len(update[1].todo)
  /\ SetStore(update[1].draft.st)
  /\ selectedIds' = update[1].draft.selectedIds
  /\ lastOp' = Call(update[1].call.op, update[1].call.ids, update[1].call.pos,
                    Returned(update[1].call, update[1].base.st))
  /\ update' = <<>>
  /\ UNCHANGED <<hist, selectedType, tools, driver>>

Updates == {"addVertex", "addEdge", "deleteVertex", "deleteEdge", "addFace"}
\* the sessions of the square, with their selections and without their history
Dividing == SelectSeq(Session, LAMBDA s : s.op \in Updates \cup {"setSelection"})
Reworking == SelectSeq(Rework, LAMBDA s : s.op \in Updates \cup {"setSelection"})

UpdateInit == Start /\ plan \in {Dividing, Reworking}

UpdateNext ==
  \/ \E c \in Planned("addVertex") \cup FreeP("addVertex", FreePositions) :
       BeginUpdate(c, AddVertexMutations(Draft(Store, selectedIds), c.pos[1]))
  \/ \E c \in Planned("addEdge")
              \cup Free({Step("addEdge", <<a, b>>, <<>>) :
                           a \in GridIdInputs, b \in GridIdInputs}) :
       BeginUpdate(c, AddEdgeMutations(Draft(Store, selectedIds), c.ids[1], c.ids[2]))
  \/ \E c \in Planned("deleteVertex")
              \cup Free({Step("deleteVertex", <<id>>, <<>>) : id \in VertexIdInputs}) :
       BeginUpdate(c, DeleteVertexMutations(Draft(Store, selectedIds), c.ids[1]))
  \/ \E c \in Planned("deleteEdge")
              \cup Free({Step("deleteEdge", <<id>>, <<>>) : id \in EdgeIdInputs}) :
       BeginUpdate(c, DeleteEdgeMutations(Draft(Store, selectedIds), c.ids[1]))
  \/ \E c \in Planned("addFace")
              \cup Free({Step("addFace", ids, <<>>) : ids \in FaceInputs}) :
       BeginUpdate(c, AddFaceMutations(Draft(Store, selectedIds), c.ids))
  \/ \E c \in Planned("setSelection")
              \cup Free({Step("setSelection", ids, <<"vertex">>) :
                           ids \in SelectionInputs}) :
       Drive(c) /\ SetSelection(c.ids, c.pos[1])
  \/ Mutate
  \/ Commit

UpdateSpec == UpdateInit /\ [][UpdateNext]_vars

(* ----------------------------- properties ------------------------------ *)
(* The properties of the store.  A property of one operation is stated     *)
(* about the step that makes the call: lastOp' names the call of a step,    *)
(* the unprimed variables are the store before it and the primed ones the   *)
(* store after it.                                                          *)

\* the edges of the store that list the vertex as an endpoint
IncidentEdges(es, id) == {es[i].id : i \in {j \in DOMAIN es : id \in Range(es[j].vertices)}}
\* the same vertices in the same order, with the same ids and positions
SamePlaces(vs1, vs2) ==
  /\ Len(vs1) = Len(vs2)
  /\ \A i \in DOMAIN vs1 : vs1[i].id = vs2[i].id /\ vs1[i].position = vs2[i].position
\* the records of a collection other than those with the given ids, in order
Others(map, ids) == SelectSeq(map, LAMBDA r : r.id \notin ids)

\* four vertices, the only ones made, at the given places in order
FourAt(ps) ==
  /\ ctr.v = 5
  /\ Len(vertices) = 4
  /\ \A k \in 1..4 : vertices[k].position = ps[k]
\* the four vertices joined in a row by the only three edges made, and no more
OpenLoop ==
  /\ ctr.v = 5
  /\ Len(vertices) = 4
  /\ ctr.e = 4
  /\ Len(edges) = 3
  /\ \A k \in 1..3 : \E i \in DOMAIN edges : Joins(edges[i], V(k), V(k + 1))
\* the four vertices joined in a ring by the only four edges made, with one face
\* over the four edges
ClosedQuad ==
  /\ ctr.e = 5
  /\ Len(edges) = 4
  /\ \A k \in 1..4 : \E i \in DOMAIN edges : Joins(edges[i], V(k), V((k % 4) + 1))
  /\ Len(faces) = 1
  /\ Range(faces[1].edges) = Ids(edges)
\* p is more than 0.01 away from the plane through a, b and c (not on one line)
OffPlane(p, a, b, c) ==
  LET normal == CrossProduct(VSub(b, a), VSub(c, a))
      dot == Dot(VSub(p, a), normal)
  IN  /\ RLt(RInt(0), Len2(normal))
      /\ RGtInv(RDiv(RMul(dot, dot), Len2(normal)), 10000)
\* the cross product of b - a and c - a is at least 0.0001 long
Spread(a, b, c) ==
  ~ RLtInv(Len2(CrossProduct(VSub(b, a), VSub(c, a))), 100000000)
\* the positions of the vertices other than the k-th, in order
OtherThree(k) ==
  LET others == SelectSeq(<<1, 2, 3, 4>>, LAMBDA j : j # k)
  IN  [j \in 1..3 |-> vertices[others[j]].position]
\* the k-th of four vertices is off the plane of the other three
Displaced(k) ==
  OffPlane(vertices[k].position, OtherThree(k)[1], OtherThree(k)[2], OtherThree(k)[3])

\* C1: for every vertex of the store, the ids in its edge list are exactly the
\* edges of the store that have it as an endpoint
VertexEdgesConsistent ==
  \A i \in DOMAIN vertices :
    Range(vertices[i].edges) = IncidentEdges(edges, vertices[i].id)

\* addEdge has split an edge: a vertex made by the call lies on four edges
SplitVertexDone ==
  /\ lastOp.op = "addEdge"
  /\ \E i \in DOMAIN vertices :
       /\ vertices[i].id[2] = ctr.v - 1
       /\ Cardinality(IncidentEdges(edges, vertices[i].id)) = 4

\* C2: for every edge of the store, the ids in its face list are exactly the
\* faces of the store whose edge list contains it
EdgeFacesConsistent ==
  \A i \in DOMAIN edges :
    Range(edges[i].faces) =
      {faces[j].id : j \in {k \in DOMAIN faces : Includes(faces[k].edges, edges[i].id)}}

\* addEdge has removed a face and made two that share the new edge
SharedEdgeDone ==
  /\ lastOp.op = "addEdge"
  /\ Has(edges, lastOp.ret)
  /\ Cardinality(Range(Get(edges, lastOp.ret).faces)) = 2
  /\ ~ Has(faces, FId(1))

\* C3: no two edges of the store join the same two vertices
NoParallelEdges ==
  \A i, j \in DOMAIN edges :
    i # j => Range(edges[i].vertices) # Range(edges[j].vertices)

\* addFace has used an edge of the store from its second end to its first
ReverseReuseDone ==
  /\ lastOp.op = "addFace"
  /\ lastOp.ret # NULL
  /\ Has(faces, lastOp.ret)
  /\ \E k \in DOMAIN lastOp.ids :
       /\ lastOp.ids[k] # lastOp.ids[(k % Len(lastOp.ids)) + 1]
       /\ \E i \in DOMAIN edges :
            /\ edges[i].vertices = <<lastOp.ids[(k % Len(lastOp.ids)) + 1], lastOp.ids[k]>>
            /\ Includes(Get(faces, lastOp.ret).edges, edges[i].id)

\* C4: no two faces of the store list the same set of edges (refuted: addFace
\* called again with the same loop stores a second face over the same edges)
NoDuplicateFaces ==
  \A i, j \in DOMAIN faces :
    i # j => Range(faces[i].edges) # Range(faces[j].edges)

\* C5: addEdge called again for the same two vertices of the store, in either
\* order, right after addEdge changes no vertex, edge or face (refuted: when the
\* first call was split into a chain, no edge joins the two vertices and the
\* second call adds edges again)
AddEdgeTwice ==
  [][/\ lastOp.op = "addEdge"
     /\ lastOp'.op = "addEdge"
     /\ Range(lastOp'.ids) = Range(lastOp.ids)
     /\ \A k \in 1..2 : Has(vertices, lastOp.ids[k])
     => UNCHANGED <<vertices, edges, faces>>]_vars

\* C6: with the corners of the square joined in a row by three edges there is
\* no face; addEdge of the fourth side leaves exactly one face, over exactly the
\* four edges, with normal (0,1,0) or (0,-1,0)
QuadMakesOneFace ==
  [][/\ OpenLoop
     /\ FourAt(<<P1, P2, P3, P4>>)
     /\ lastOp'.op = "addEdge"
     /\ Range(lastOp'.ids) = {V(4), V(1)}
     => /\ faces = <<>>
        /\ Len(edges') = 4
        /\ Len(faces') = 1
        /\ Len(faces'[1].edges) = 4
        /\ Range(faces'[1].edges) = Ids(edges')
        /\ faces'[1].normal \in {<<0, 1, 0>>, <<0, -1, 0>>}]_vars

\* the fourth side of the square has just been added and the face is there
QuadClosedDone ==
  /\ lastOp.op = "addEdge"
  /\ Range(lastOp.ids) = {V(4), V(1)}
  /\ FourAt(<<P1, P2, P3, P4>>)
  /\ ClosedQuad
  /\ faces[1].normal \in {<<0, 1, 0>>, <<0, -1, 0>>}

\* C7: addEdge of a diagonal of the closed square with its one face removes that
\* face and leaves exactly two faces of three edges each, which together list
\* all five edges and both list the diagonal
DiagonalSplitsQuad ==
  [][/\ ClosedQuad
     /\ FourAt(<<P1, P2, P3, P4>>)
     /\ lastOp'.op = "addEdge"
     /\ Range(lastOp'.ids) \in {{V(1), V(3)}, {V(2), V(4)}}
     => /\ ~ Has(faces', faces[1].id)
        /\ Len(faces') = 2
        /\ Len(edges') = 5
        /\ Has(edges', lastOp'.ret)
        /\ \A i \in DOMAIN faces' :
             /\ Len(faces'[i].edges) = 3
             /\ Cardinality(Range(faces'[i].edges)) = 3
             /\ lastOp'.ret \in Range(faces'[i].edges)
        /\ UNION {Range(faces'[i].edges) : i \in DOMAIN faces'} = Ids(edges')
        /\ Range(Get(edges', lastOp'.ret).faces) = Ids(faces')]_vars

\* a diagonal of the square has just been added
DiagonalDone ==
  /\ lastOp.op = "addEdge"
  /\ Range(lastOp.ids) \in {{V(1), V(3)}, {V(2), V(4)}}
  /\ FourAt(<<P1, P2, P3, P4>>)
  /\ ctr.e = 6
  /\ Len(edges) = 5
  /\ Len(faces) = 2
  /\ ctr.f = 4

\* C8: with the first of two crossing segments in the store, addEdge of the
\* second leaves one new vertex at the crossing point and exactly four edges,
\* all at the new vertex, none joining the ends of either segment (refuted: the
\* crossing is not found and the second segment is added whole)
CrossingSegmentsSplit ==
  [][/\ FourAt(<<X1, X2, X3, X4>>)
     /\ ctr.e = 2
     /\ Len(edges) = 1
     /\ Joins(edges[1], V(1), V(2))
     /\ lastOp'.op = "addEdge"
     /\ Range(lastOp'.ids) = {V(3), V(4)}
     => /\ Len(vertices') = 5
        /\ vertices'[5].position = Vec(0, 0, 0)
        /\ Len(edges') = 4
        /\ \A i \in DOMAIN edges' :
             /\ vertices'[5].id \in Range(edges'[i].vertices)
             /\ ~ Joins(edges'[i], V(1), V(2))
             /\ ~ Joins(edges'[i], V(3), V(4))]_vars

EdgeEndsPresent ==
  \A i \in DOMAIN edges :
    \A k \in 1..2 : Has(vertices, edges[i].vertices[k])

\* a vertex on an edge has been deleted and other edges remain
EndDeletedDone ==
  /\ lastOp.op = "deleteVertex"
  /\ ~ Has(vertices, lastOp.ids[1])
  /\ \E i \in DOMAIN vertices : Len(vertices[i].edges) = 1
  /\ edges # <<>>

\* C11: every edge of the store has two distinct endpoints (refuted: addEdge with
\* v1 = v2, and addFace with a vertex named twice in a row or first and last,
\* store an edge from the vertex to itself)
DistinctEndpoints ==
  \A i \in DOMAIN edges : edges[i].vertices[1] # edges[i].vertices[2]

\* C12: every edge id in every face's edge list is the id of an edge of the store
\* (refuted: deleteEdge, deleteVertex and the split of an edge remove edges and
\* leave the faces that list them)
FaceEdgesPresent ==
  \A i \in DOMAIN faces : \A k \in DOMAIN faces[i].edges : Has(edges, faces[i].edges[k])

\* a face's edge list is one closed loop: no edge twice, and every vertex the
\* edges touch is an endpoint of exactly two of them
IsLoop(es, face) ==
  /\ \A j, k \in DOMAIN face.edges : j # k => face.edges[j] # face.edges[k]
  /\ \A e \in Range(face.edges) : \A v \in Range(Get(es, e).vertices) :
       Cardinality({x \in Range(face.edges) : v \in Range(Get(es, x).vertices)}) = 2

\* C13: every face whose edges are all in the store is a single closed loop
\* (refuted: addFace with a repeated vertex id lists an edge twice, and the
\* faces found for addEdge(v, v) run out along an edge and back)
FacesAreLoops ==
  \A i \in DOMAIN faces :
    (\A e \in Range(faces[i].edges) : Has(edges, e)) => IsLoop(edges, faces[i])

\* C14: deleteEdge(id) of an edge of the store removes the edge, its id from every
\* vertex's edge list and from the selection, and changes nothing else of the
\* vertices, the other edges or the faces; deleteEdge of an unknown id changes
\* nothing
DeleteEdgeEffect ==
  [][lastOp'.op = "deleteEdge" =>
       LET id == lastOp'.ids[1]
       IN  IF Has(edges, id)
           THEN /\ ~ Has(edges', id)
                /\ edges' = Others(edges, {id})
                /\ SamePlaces(vertices', vertices)
                /\ \A i \in DOMAIN vertices :
                     vertices'[i].edges = Without(vertices[i].edges, id)
                /\ selectedIds' = selectedIds \ {id}
                /\ faces' = faces
           ELSE UNCHANGED <<vertices, edges, faces, selectedIds>>]_vars

\* a selected edge that a face lists has been deleted: the face still lists it
DeleteEdgeDone ==
  /\ lastOp.op = "deleteEdge"
  /\ selectedIds # {}
  /\ ~ Has(edges, lastOp.ids[1])
  /\ \E i \in DOMAIN faces : Includes(faces[i].edges, lastOp.ids[1])

\* C15: deleteVertex(id) of a vertex of the store removes the vertex, every edge
\* that has it as an endpoint, the ids of those edges from every remaining edge
\* list, and id from the selection; the other vertices and edges are otherwise
\* unchanged; deleteVertex of an unknown id changes nothing
DeleteVertexEffect ==
  [][lastOp'.op = "deleteVertex" =>
       LET id == lastOp'.ids[1]
           gone == IncidentEdges(edges, id)
       IN  IF Has(vertices, id)
           THEN /\ ~ Has(vertices', id)
                /\ \A e \in gone : ~ Has(edges', e)
                /\ edges' = Others(edges, gone)
                /\ SamePlaces(vertices', Others(vertices, {id}))
                /\ \A i \in DOMAIN vertices' :
                     /\ Range(vertices'[i].edges) \cap gone = {}
                     /\ vertices'[i].edges =
                          SelectSeq(Get(vertices, vertices'[i].id).edges,
                                    LAMBDA e : e \notin gone)
                /\ selectedIds' = selectedIds \ {id}
           ELSE UNCHANGED <<vertices, edges, faces, selectedIds>>]_vars

\* a selected vertex with two edges has been deleted, and other edges remain
DeleteVertexDone ==
  /\ lastOp.op = "deleteVertex"
  /\ selectedIds # {}
  /\ ~ Has(vertices, lastOp.ids[1])
  /\ Len(edges) >= 2
  /\ \E i \in DOMAIN faces : ~ \A e \in Range(faces[i].edges) : Has(edges, e)

\* C16: addEdge(v1, v2) changes no vertex, edge or face when v1 or v2 is not a
\* vertex of the store, or when an edge already joins them in either order
AddEdgeNoOp ==
  [][/\ lastOp'.op = "addEdge"
     /\ \/ ~ Has(vertices, lastOp'.ids[1])
        \/ ~ Has(vertices, lastOp'.ids[2])
        \/ \E i \in DOMAIN edges :
             Range(edges[i].vertices) = {lastOp'.ids[1], lastOp'.ids[2]}
     => UNCHANGED <<vertices, edges, faces>>]_vars

\* addEdge has been called for the two ends of an edge, second end first
AddEdgeAgainDone ==
  /\ lastOp.op = "addEdge"
  /\ lastOp.ids[1] # lastOp.ids[2]
  /\ \E i \in DOMAIN edges :
       edges[i].vertices = <<lastOp.ids[2], lastOp.ids[1]>>
  /\ Cardinality({i \in DOMAIN edges :
                    Range(edges[i].vertices) = Range(lastOp.ids)}) = 1

\* C17: addFace(vertexIds) returns null and changes no vertex, edge or face when
\* it is given fewer than 3 ids or an id that is not a vertex of the store;
\* otherwise it returns the id of a face of the store whose k-th edge joins the
\* k-th id and the next (the first after the last), an edge the store already had
\* when it had one joining them and an edge made by the call otherwise
AddFaceContract ==
  [][lastOp'.op = "addFace" =>
       LET ids == lastOp'.ids
           n == Len(ids)
           ret == lastOp'.ret
       IN  IF n < 3 \/ \E k \in DOMAIN ids : ~ Has(vertices, ids[k])
           THEN ret = NULL /\ UNCHANGED <<vertices, edges, faces>>
           ELSE /\ ret # NULL
                /\ Has(faces', ret)
                /\ ~ Has(faces, ret)
                /\ Len(Get(faces', ret).edges) = n
                /\ \A k \in 1..n :
                     LET e == Get(faces', ret).edges[k]
                         a == ids[k]
                         b == ids[(k % n) + 1]
                     IN  /\ Has(edges', e)
                         /\ Joins(Get(edges', e), a, b)
                         /\ Has(edges, e) <=> \E i \in DOMAIN edges : Joins(edges[i], a, b)
                         /\ Has(edges, e) => Get(edges, e).vertices = Get(edges', e).vertices]_vars

\* addFace has made a face, one of whose edges the store had and one of whose
\* edges, the last the store made, the call made
AddFaceDone ==
  /\ lastOp.op = "addFace"
  /\ lastOp.ret # NULL
  /\ Has(faces, lastOp.ret)
  /\ \E e \in Range(Get(faces, lastOp.ret).edges) : e[2] < ctr.e - 1
  /\ \E e \in Range(Get(faces, lastOp.ret).edges) : e[2] = ctr.e - 1

\* C18: updateVertexPosition(id, p) changes the position of vertex id and nothing
\* else: every vertex keeps its place, id and edge list, every other vertex its
\* position, and the edges and the faces (stored normals included) are unchanged;
\* when id is unknown the vertices are unchanged too
UpdateVertexPositionFrame ==
  [][lastOp'.op = "updateVertexPosition" =>
       LET id == lastOp'.ids[1]
       IN  /\ edges' = edges
           /\ faces' = faces
           /\ Len(vertices') = Len(vertices)
           /\ \A i \in DOMAIN vertices :
                /\ vertices'[i].id = vertices[i].id
                /\ vertices'[i].edges = vertices[i].edges
                /\ vertices'[i].position =
                     IF vertices[i].id = id THEN lastOp'.pos[1]
                     ELSE vertices[i].position
           /\ ~ Has(vertices, id) => vertices' = vertices]_vars

\* a corner of a face has been moved off the plane the stored normal is for
UpdateVertexPositionDone ==
  /\ lastOp.op = "updateVertexPosition"
  /\ Has(vertices, lastOp.ids[1])
  /\ Get(vertices, lastOp.ids[1]).position = lastOp.pos[1]
  /\ Get(vertices, lastOp.ids[1]).edges # <<>>
  /\ \E i \in DOMAIN faces :
       /\ \A e \in Range(faces[i].edges) : Has(edges, e)
       /\ \E e \in Range(faces[i].edges) : lastOp.ids[1] \in Range(Get(edges, e).vertices)
       /\ faces[i].normal # <<0, 0, 0>>
       /\ lastOp.pos[1] = P7

\* C19: findNearbyVertex(p, threshold) changes nothing of the store; it returns
\* none exactly when no vertex is at a distance below the threshold from p, and
\* otherwise a vertex as close to p as any vertex is, the first in insertion order
\* of the vertices that close
FindNearbyVertexResult ==
  [][lastOp'.op = "findNearbyVertex" =>
       LET p == lastOp'.pos[1]
           threshold == lastOp'.ids[1]
           ret == lastOp'.ret
           d(i) == Distance2(p, vertices[i].position)
           within == {i \in DOMAIN vertices : RLt(d(i), RMul(threshold, threshold))}
       IN  /\ UNCHANGED <<geom, ctr, hist, sel, tools>>
           /\ ret = NULL <=> within = {}
           /\ ret # NULL =>
                \E i \in DOMAIN vertices :
                  /\ vertices[i].id = ret
                  /\ \A j \in DOMAIN vertices : RLe(d(i), d(j))
                  /\ \A j \in 1..(i - 1) : RLt(d(i), d(j))]_vars

\* a query has returned the first of several vertices equally close to the point,
\* two of them at the same place
FindNearbyVertexDone ==
  /\ lastOp.op = "findNearbyVertex"
  /\ lastOp.ret # NULL
  /\ \E i, j, k \in DOMAIN vertices :
       /\ i < j /\ j < k
       /\ vertices[i].id = lastOp.ret
       /\ vertices[i].position = vertices[k].position
       /\ vertices[i].position # vertices[j].position
       /\ Distance2(lastOp.pos[1], vertices[j].position)
            = Distance2(lastOp.pos[1], vertices[i].position)

\* C20: the history never holds more than maxHistory entries (refuted: undo at the
\* newest entry pushes the current state onto the history and does not discard
\* the oldest)
HistoryBounded ==
  Len(history) <= maxHistory

\* the vertices that the edges of a face join
LoopVertices(es, face) ==
  UNION {Range(Get(es, e).vertices) : e \in {x \in Range(face.edges) : Has(es, x)}}
\* the faces of the store after a step that were not there before it
NewFaces(before, after) == SelectSeq(after, LAMBDA f : ~ Has(before, f.id))

\* C25: every face carries a unit normal, never the zero vector
\* (refuted: addFace stores the cross product of its first two boundary vectors
\* as it is when its length is 0)
FacesHaveUnitNormals ==
  \A i \in DOMAIN faces :
    /\ faces[i].normal # <<0, 0, 0>>
    /\ Gcd(Gcd(Abs(faces[i].normal[1]), Abs(faces[i].normal[2])),
           Abs(faces[i].normal[3])) = 1

\* C28: no face made by addEdge has a chord: every edge of the store that joins
\* two vertices of the face's loop is one of the face's boundary edges
\* (refuted: the filter looks at the path without v2, and passes over the pair of
\* the path's first and last vertex)
SynthesizedFacesChordFree ==
  [][lastOp'.op = "addEdge"
     => \A i \in DOMAIN NewFaces(faces, faces') :
          LET face == NewFaces(faces, faces')[i]
          IN  \A k \in DOMAIN edges' :
                Range(edges'[k].vertices) \subseteq LoopVertices(edges', face)
                => Includes(face.edges, edges'[k].id)]_vars

\* C29: no face made by addEdge has more than maxCycleLength boundary vertices
\* (refuted: the bound is on the path without v2)
SynthesizedFacesWithinCap ==
  [][lastOp'.op = "addEdge"
     => \A i \in DOMAIN NewFaces(faces, faces') :
          Cardinality(LoopVertices(edges', NewFaces(faces, faces')[i]))
            <= maxCycleLength]_vars

\* the points are on one line, or within 0.01 of the plane through three of them
OnOnePlane(ps) ==
  \/ \A a \in ps, b \in ps, c \in ps :
       Len2(CrossProduct(VSub(b, a), VSub(c, a))) = RInt(0)
  \/ \E a \in ps, b \in ps, c \in ps :
       /\ RLt(RInt(0), Len2(CrossProduct(VSub(b, a), VSub(c, a))))
       /\ \A p \in ps : ~ OffPlane(p, a, b, c)

\* C30: the boundary vertices of every face made by addEdge are within 0.01 of
\* one common plane
\* (refuted: a loop whose first three vertices are on one line is taken for flat
\* without its other vertices being looked at)
SynthesizedFacesFlat ==
  [][lastOp'.op = "addEdge"
     => \A i \in DOMAIN NewFaces(faces, faces') :
          OnOnePlane({PositionOf(vertices', v) :
                        v \in LoopVertices(edges', NewFaces(faces, faces')[i])})]_vars

\* the vertices within the snap threshold of the ray of a computeSnap call, those
\* other than the excluded one, and a vertex of a set that is the closest of the
\* set to the ray, the first in the Map among equally close ones
RayDistance2(i) == DistanceToRay2(lastOp.ids.ray, vertices[i].position)
Near == {i \in DOMAIN vertices : RLt(RayDistance2(i), Rat(9, 4))}
NearIncluded == {i \in Near : vertices[i].id # lastOp.ids.excludeVertexId}
ClosestOf(set, i) ==
  /\ i \in set
  /\ \A j \in set : RLe(RayDistance2(i), RayDistance2(j))
  /\ \A j \in set : RayDistance2(j) = RayDistance2(i) => i <= j

\* C22 as stated: computeSnap returns one snap category; whenever some vertex is
\* within 1.5 of the ray the result is a vertex snap with the id and position of
\* the closest vertex, drawing or not; an axis result only while drawing; a grid
\* result only when no vertex is within the threshold
\* (refuted: the vertex named by excludeVertexId is passed over)
SnapTakesClosestVertex ==
  lastOp.op = "computeSnap"
  => /\ lastOp.ret.snapType \in {"vertex", "axis", "grid", "none"}
     /\ Near # {}
        => /\ lastOp.ret.snapType = "vertex"
           /\ \E i \in Near : /\ ClosestOf(Near, i)
                              /\ lastOp.ret.vertexId = vertices[i].id
                              /\ lastOp.ret.point = vertices[i].position
     /\ lastOp.ret.snapType = "axis" => lastOp.ids.startPoint # <<>>
     /\ lastOp.ret.snapType = "grid" => Near = {}

\* C22, amended: as above for the vertices other than the one excluded by the
\* caller: when one of them is less than 1.5 from the ray the result is a vertex
\* snap with the id and position of the closest of them, otherwise it is not a
\* vertex snap; an axis result only while drawing; a grid result only when
\* none of them is within the threshold
SnapTakesClosestIncludedVertex ==
  lastOp.op = "computeSnap"
  => /\ lastOp.ret.snapType \in {"vertex", "axis", "grid", "none"}
     /\ NearIncluded # {}
        => /\ lastOp.ret.snapType = "vertex"
           /\ \E i \in NearIncluded : /\ ClosestOf(NearIncluded, i)
                                      /\ lastOp.ret.vertexId = vertices[i].id
                                      /\ lastOp.ret.point = vertices[i].position
     /\ NearIncluded = {}
        => lastOp.ret.snapType # "vertex" /\ lastOp.ret.vertexId = NULL
     /\ lastOp.ret.snapType = "axis" => lastOp.ids.startPoint # <<>>
     /\ lastOp.ret.snapType = "grid" => NearIncluded = {}

\* a snap while drawing from the vertex nearest to the ray: the start vertex is
\* excluded and the snap goes to another vertex within the threshold
SnapPastStartVertexDone ==
  /\ lastOp.op = "computeSnap"
  /\ lastOp.ids.startPoint # <<>>
  /\ \E i \in Near : /\ ClosestOf(Near, i)
                     /\ vertices[i].id = lastOp.ids.excludeVertexId
  /\ lastOp.ret.snapType = "vertex"
  /\ lastOp.ret.vertexId # lastOp.ids.excludeVertexId

\* the direction d is within 10 degrees of the x axis: the tangent of 10 degrees
\* is 0.17632.., a little less than 3/17
WithinTenDegreesOfX(d) ==
  /\ d[1][1] # 0
  /\ RLe(RMul(RInt(289), RAdd(RMul(d[2], d[2]), RMul(d[3], d[3]))),
         RMul(RInt(9), RMul(d[1], d[1])))
\* v is the whole multiple of g nearest to x
NearestMultiple(v, x, g) ==
  /\ RDiv(v, g)[2] = 1
  /\ RLe(RMul(RInt(2), RAbs(RSub(v, x))), g)

\* C23 as stated: for a start point at the origin and an end point whose
\* direction from it is within 10 degrees of the x axis, inferAxis returns the
\* axis x and a point with the start point's y and z
\* (refuted: an end point less than 0.1 from the start point is returned as it
\* is, with no axis)
InferAxisLocksToX ==
  lastOp.op = "inferAxis" /\ lastOp.pos[1] = P1
    /\ WithinTenDegreesOfX(VSub(lastOp.pos[2], lastOp.pos[1]))
  => /\ lastOp.ret.axis = "x"
     /\ lastOp.ret.point[2] = lastOp.pos[1][2]
     /\ lastOp.ret.point[3] = lastOp.pos[1][3]

\* C23, amended: for a start point at the origin and an end point at least 0.1
\* away from it in a direction within 10 degrees of the x axis, inferAxis returns
\* the axis x and a point with the start point's y and z, whose x is the end
\* point's, snapped to the grid when snapping is enabled
InferAxisLocksToXFromAfar ==
  lastOp.op = "inferAxis" /\ lastOp.pos[1] = P1
    /\ WithinTenDegreesOfX(VSub(lastOp.pos[2], lastOp.pos[1]))
    /\ ~ RLtInv(Len2(VSub(lastOp.pos[2], lastOp.pos[1])), 100)
  => /\ lastOp.ret.axis = "x"
     /\ lastOp.ret.point[2] = lastOp.pos[1][2]
     /\ lastOp.ret.point[3] = lastOp.pos[1][3]
     /\ IF lastOp.ids.snapEnabled
        THEN NearestMultiple(lastOp.ret.point[1], lastOp.pos[2][1], lastOp.ids.gridSize)
        ELSE lastOp.ret.point[1] = lastOp.pos[2][1]

\* inferAxis from the origin to a point off the x axis, within 10 degrees of it
\* and 3.5 or more away, with snapping: the point is brought onto the axis and
\* onto the grid
InferAxisLockedDone ==
  /\ lastOp.op = "inferAxis"
  /\ lastOp.pos[1] = P1
  /\ WithinTenDegreesOfX(VSub(lastOp.pos[2], lastOp.pos[1]))
  /\ lastOp.pos[2][2] # RInt(0)
  /\ lastOp.pos[2][1] = Q(7, 2)
  /\ lastOp.ids.snapEnabled
  /\ lastOp.ret.axis = "x"
  /\ lastOp.ret.point = Vec(4, 0, 0)

\* C24: snapToGrid(snapToGrid(v, g), g) = snapToGrid(v, g) for every v and every
\* g > 0, and snapToGrid(v, g) is a whole multiple of g
SnapToGridIdempotent ==
  lastOp.op = "snapToGrid"
  => /\ snapToGrid(lastOp.ret, lastOp.pos[2]) = lastOp.ret
     /\ RDiv(lastOp.ret, lastOp.pos[2])[2] = 1

\* snapToGrid has moved a value that is not on the grid to a multiple of 3/10
\* other than 0
SnapToGridMovedDone ==
  /\ lastOp.op = "snapToGrid"
  /\ lastOp.pos[2] = Q(3, 10)
  /\ lastOp.ret # lastOp.pos[1]
  /\ lastOp.ret # RInt(0)
  /\ snapToGrid(lastOp.ret, lastOp.pos[2]) = lastOp.ret

\* the preview of the rectangle tool has no area: its width, or its depth (its
\* height, for a wall), is below 0.01
NoArea(corners, isVertical) ==
  LET width == IF isVertical
               THEN LET x == RAbs(RSub(corners[2][1], corners[1][1]))
                        z == RAbs(RSub(corners[2][3], corners[1][3]))
                    IN  IF RLt(x, z) THEN z ELSE x
               ELSE RAbs(RSub(corners[3][1], corners[1][1]))
      depth == IF isVertical THEN RAbs(RSub(corners[3][2], corners[1][2]))
               ELSE RAbs(RSub(corners[3][3], corners[1][3]))
  IN  RLt(width, Rat(1, 100)) \/ RLt(depth, Rat(1, 100))
\* the tools' in-progress state after a step
RectangleReset ==
  /\ rectangleStartPoint' = <<>>
  /\ rectanglePreviewCorners' = <<>>
  /\ rectangleIsVertical' = FALSE
  /\ isDrawing' = FALSE
  /\ previewPoint' = <<>>
CircleReset ==
  /\ circleCenter' = <<>>
  /\ circlePreviewVertices' = <<>>
  /\ isDrawing' = FALSE
  /\ previewPoint' = <<>>
ArcReset ==
  /\ arcCenter' = <<>>
  /\ arcRadius' = RInt(0)
  /\ arcStartAngle' = <<>>
  /\ arcEndAngle' = <<>>
  /\ arcPreviewVertices' = <<>>
  /\ isDrawing' = FALSE
  /\ previewPoint' = <<>>
\* the session has made its first n calls and no other
Made(session, n) ==
  free = 0 /\ Len(session) >= n /\ plan = SubSeq(session, n + 1, Len(session))

\* C26: finishRectangle with no preview or with a preview of no area,
\* finishCircle with no preview and finishArc with no preview leave the
\* vertices, edges and faces as they are and reset the tool's in-progress state
DegenerateFinishDoesNothing ==
  [][/\ lastOp'.op = "finishRectangle"
        /\ \/ rectanglePreviewCorners = <<>>
           \/ NoArea(rectanglePreviewCorners[1], rectangleIsVertical)
        => UNCHANGED <<vertices, edges, faces>> /\ RectangleReset
     /\ lastOp'.op = "finishCircle" /\ circlePreviewVertices = <<>>
        => UNCHANGED <<vertices, edges, faces>> /\ CircleReset
     /\ lastOp'.op = "finishArc" /\ arcPreviewVertices = <<>>
        => UNCHANGED <<vertices, edges, faces>> /\ ArcReset]_vars

\* finishRectangle has been called on a started rectangle with no preview, with a
\* preview of no depth and with a wall of no height: there is still only the one
\* vertex, and the tool is reset
DegenerateRectanglesDone ==
  /\ Made(Rectangles, 16)
  /\ lastOp.op = "finishRectangle"
  /\ Len(vertices) = 1
  /\ edges = <<>>
  /\ rectangleStartPoint = <<>>
  /\ ~ isDrawing

\* C27: cancelRectangle, cancelCircle and cancelArc reset the in-progress state
\* of their tool and leave the vertices, edges and faces, the history and the
\* active tool as they are
CancelResetsTool ==
  [][/\ lastOp'.op = "cancelRectangle" => RectangleReset
     /\ lastOp'.op = "cancelCircle" => CircleReset
     /\ lastOp'.op = "cancelArc" => ArcReset
     /\ lastOp'.op \in {"cancelRectangle", "cancelCircle", "cancelArc"}
        => UNCHANGED <<vertices, edges, faces, history, historyIndex, activeTool>>]_vars

\* a rectangle with a preview has been cancelled while the rectangle tool is
\* active, with a vertex in the store and a snapshot in the history
CancelRectangleDone ==
  /\ Made(Rectangles, 8)
  /\ lastOp.op = "cancelRectangle"
  /\ activeTool = "rectangle"
  /\ Len(vertices) = 1
  /\ Len(history) = 1
  /\ rectanglePreviewCorners = <<>>

\* what a whole call makes of the store and the selection
Whole(c, d) ==
  CASE c.op = "addVertex" -> Draft(addVertex(d.st, c.pos[1]), d.selectedIds)
    [] c.op = "addEdge" -> Draft(addEdge(d.st, c.ids[1], c.ids[2]), d.selectedIds)
    [] c.op = "deleteVertex" ->
         Draft(deleteVertex(d.st, c.ids[1]),
               IF Has(d.st.vertices, c.ids[1]) THEN d.selectedIds \ {c.ids[1]}
               ELSE d.selectedIds)
    [] c.op = "deleteEdge" ->
         Draft(deleteEdge(d.st, c.ids[1]),
               IF Has(d.st.edges, c.ids[1]) THEN d.selectedIds \ {c.ids[1]}
               ELSE d.selectedIds)
    [] c.op = "addFace" -> Draft(addFace(d.st, c.ids), d.selectedIds)

\* an edge of the draft that neither of its ends lists
Detached(st) ==
  \E i \in DOMAIN st.edges :
    \A v \in Range(st.edges[i].vertices) :
      Has(st.vertices, v) /\ ~ Includes(Get(st.vertices, v).edges, st.edges[i].id)

\* a face of the draft that one of its edges does not reference
Unreferenced(st) ==
  \E i \in DOMAIN st.faces :
    \E e \in Range(st.faces[i].edges) :
      Has(st.edges, e) /\ ~ Includes(Get(st.edges, e).faces, st.faces[i].id)

\* C21: addVertex, addEdge, deleteVertex, deleteEdge and addFace each apply all
\* their changes in one update of the store: while the statements of a call run,
\* the store and the selection stay what they were when the call was made, and
\* the step that ends the call takes them to the result of the whole call.
UpdatesAreAtomic ==
  [][/\ update' # <<>> => UNCHANGED <<vertices, edges, faces, ctr, selectedIds>>
     /\ (update # <<>> /\ update' = <<>>) =>
          Draft(Store', selectedIds') = Whole(update[1].call, Draft(Store, selectedIds))]_vars

\* an addEdge is between two of its statements: in its draft an old edge is
\* detached from its vertices and not yet replaced, and the store does not show it
HalfSplitHidden ==
  /\ update # <<>>
  /\ update[1].call.op = "addEdge"
  /\ Detached(update[1].draft.st)
  /\ ~ Detached(Store)
  /\ Store = update[1].base.st

\* the vertices that the step has added, in the order added
NewVertices == SubSeq(vertices', Len(vertices) + 1, Len(vertices'))
\* the edges that the step has added
NewEdges == SelectSeq(edges', LAMBDA e : ~ Has(edges, e.id))
\* the intersections that addEdge finds for the segment from v1 to v2
Found(v1Id, v2Id) ==
  IF Has(vertices, v1Id) /\ Has(vertices, v2Id) /\ ~ AlreadyJoined(Store, v1Id, v2Id)
  THEN Intersections(Store, Get(vertices, v1Id).position, Get(vertices, v2Id).position)
  ELSE <<>>

\* C31: an addEdge(v1, v2) that finds k >= 1 intersections adds k vertices, one at
\* each intersection point; each crossed edge is gone and two new edges with its
\* construction flag join its ends to its intersection vertex; k + 1 new edges
\* run v1 -> x1 -> ... -> xk -> v2 with x1..xk in order of their distance from v1;
\* these 3k + 1 edges are all the new edges and none of them joins v1 and v2.
AddEdgeSplitsAtIntersections ==
  [][lastOp'.op = "addEdge" /\ Len(Found(lastOp'.ids[1], lastOp'.ids[2])) >= 1
     => LET v1Id == lastOp'.ids[1]
            v2Id == lastOp'.ids[2]
            hits == Found(v1Id, v2Id)
            k == Len(hits)
            xs == NewVertices
            chain == <<v1Id>> \o [i \in 1..Len(xs) |-> xs[i].id] \o <<v2Id>>
        IN  /\ Len(xs) = k
            /\ \A n \in DOMAIN vertices : vertices'[n].id = vertices[n].id
            /\ \A h \in Range(hits) :
                 /\ ~ Has(edges', h.edgeId)
                 /\ \E i \in 1..k :
                      /\ xs[i].position = h.point
                      /\ \E a, b \in Range(NewEdges) :
                           /\ a.id # b.id
                           /\ Joins(a, Get(edges, h.edgeId).vertices[1], xs[i].id)
                           /\ Joins(b, xs[i].id, Get(edges, h.edgeId).vertices[2])
                           /\ a.isConstruction = Get(edges, h.edgeId).isConstruction
                           /\ b.isConstruction = Get(edges, h.edgeId).isConstruction
            /\ \A i \in 1..k : \E h \in Range(hits) : xs[i].position = h.point
            /\ \A i \in 1..(k + 1) :
                 \E e \in Range(NewEdges) : Joins(e, chain[i], chain[i + 1])
            /\ \A i \in 1..k : \A j \in i..k :
                 RLe(Distance2(Get(vertices, v1Id).position, xs[i].position),
                     Distance2(Get(vertices, v1Id).position, xs[j].position))
            /\ Len(NewEdges) = 3 * k + 1
            /\ Ids(edges) \ Ids(edges') = {h.edgeId : h \in Range(hits)}
            /\ \A e \in Range(NewEdges) : ~ Joins(e, v1Id, v2Id)]_vars

\* an addEdge has found two intersections, the nearer one with the edge that is
\* later in the store, and has made its chain of three edges
TwoSplitsDone ==
  /\ lastOp.op = "addEdge"
  /\ lastOp.ids = <<V(5), V(6)>>
  /\ plan = <<>> /\ free = 0
  /\ Len(vertices) = 8
  /\ Len(edges) = 7
  /\ ~ Has(edges, EId(1)) /\ ~ Has(edges, EId(2))
  /\ Distance2(G3, vertices[7].position) # Distance2(G3, vertices[8].position)
  /\ \E e \in Range(edges) : Joins(e, V(7), V(8))

\* the segments from p1 to p2 and from p3 to p4 meet at one point that is interior
\* to both: p1 + t (p2 - p1) = p3 + s (p4 - p3) with 0 < t < 1 and 0 < s < 1
CrossInside(p1, p2, p3, p4) ==
  LET d1 == VSub(p2, p1)
      d2 == VSub(p4, p3)
      w == VSub(p3, p1)
      cross == CrossProduct(d1, d2)
      t == RDiv(Dot(CrossProduct(w, d2), cross), Len2(cross))
      s == RDiv(Dot(CrossProduct(w, d1), cross), Len2(cross))
  IN  /\ Len2(cross) # RInt(0)
      /\ Dot(w, cross) = RInt(0)
      /\ RLt(RInt(0), t) /\ RLt(t, RInt(1))
      /\ RLt(RInt(0), s) /\ RLt(s, RInt(1))

\* C32: in a store filled by addVertex and addEdge alone, no two edges cross at a
\* point interior to both (refuted: the crossing is not found, see C8)
NoHiddenCrossings ==
  \A i, j \in DOMAIN edges :
    (/\ i < j
     /\ \A v \in Range(edges[i].vertices) \cup Range(edges[j].vertices) : Has(vertices, v))
    => ~ CrossInside(Get(vertices, edges[i].vertices[1]).position,
                     Get(vertices, edges[i].vertices[2]).position,
                     Get(vertices, edges[j].vertices[1]).position,
                     Get(vertices, edges[j].vertices[2]).position)

\* the vertices on the boundary of the face: the ends of its edges
BoundaryVertices(es, face) ==
  UNION {Range(Get(es, e).vertices) : e \in {x \in Range(face.edges) : Has(es, x)}}
\* the edge from v1 to v2 is a chord of the face: both are boundary vertices of
\* the face and no boundary edge of the face joins them
IsChordOf(es, face, v1Id, v2Id) ==
  /\ v1Id \in BoundaryVertices(es, face)
  /\ v2Id \in BoundaryVertices(es, face)
  /\ ~ \E e \in Range(face.edges) : Has(es, e) /\ Joins(Get(es, e), v1Id, v2Id)
\* the call addEdge(v1, v2) adds something
Adds(v1Id, v2Id) ==
  Has(vertices, v1Id) /\ Has(vertices, v2Id) /\ ~ AlreadyJoined(Store, v1Id, v2Id)

\* C33: after an addEdge(v1, v2) that adds an edge and finds no intersection,
\* every face of before that has the edge for a chord is gone from the faces and
\* from the face lists of its edges, and every other face of before is as it
\* was; after an addEdge that finds intersections every face of before is as it was
ChordInvalidation ==
  [][lastOp'.op = "addEdge" /\ Adds(lastOp'.ids[1], lastOp'.ids[2])
     => \A i \in DOMAIN faces :
          IF /\ Found(lastOp'.ids[1], lastOp'.ids[2]) = <<>>
             /\ IsChordOf(edges, faces[i], lastOp'.ids[1], lastOp'.ids[2])
          THEN /\ ~ Has(faces', faces[i].id)
               /\ \A e \in Range(faces[i].edges) :
                    Has(edges', e) => ~ Includes(Get(edges', e).faces, faces[i].id)
          ELSE Has(faces', faces[i].id) /\ Get(faces', faces[i].id) = faces[i]]_vars

\* the square with a diagonal and its three faces has been given its other
\* diagonal: the face of the four sides is gone and the first triangle at the
\* first diagonal is kept
SecondDiagonalDone ==
  /\ lastOp.op = "addEdge"
  /\ lastOp.ids = <<V(1), V(3)>>
  /\ FourAt(<<P1, P2, P3, P4>>)
  /\ Len(edges) = 6
  /\ \E i \in DOMAIN edges : Joins(edges[i], V(2), V(4))
  /\ ~ \E i \in DOMAIN faces :
         /\ Len(faces[i].edges) = 4
         /\ \A e \in Range(faces[i].edges) :
              ~ Joins(Get(edges, e), V(1), V(3)) /\ ~ Joins(Get(edges, e), V(2), V(4))
  /\ \E i \in DOMAIN faces :
       /\ BoundaryVertices(edges, faces[i]) = {V(2), V(3), V(4)}
       /\ faces[i].id = FId(1)
  /\ ctr.f > Len(faces) + 1

\* C34: an addEdge that adds edges returns the id of an edge of the store, and an
\* addEdge that adds nothing returns an id that names no edge (refuted: when the
\* segment is split at intersections the id returned is given to no edge)
AddEdgeReturnsItsEdge ==
  [][lastOp'.op = "addEdge"
     => IF Ids(edges') \ Ids(edges) # {}
        THEN Has(edges', lastOp'.ret)
        ELSE ~ Has(edges', lastOp'.ret)]_vars

\* C35: when saveToHistory was called with the collections S, the geometry was
\* then changed with no step in the history since, and undo is called once, the
\* vertices, edges and faces are those of S again; also when S is the only
\* snapshot of the history
UndoRestoresLastSaved ==
  [][(lastOp'.op = "undo" /\ noted.saved # <<>> /\ Snapshot # noted.saved[1])
       => Snapshot' = noted.saved[1]]_vars

\* C36: when undo changed the geometry and redo is the next call, the vertices,
\* edges and faces after the redo are those before the undo
UndoRedoRoundTrip ==
  [][(lastOp'.op = "redo" /\ noted.undone # <<>> /\ Snapshot # noted.undone[1])
       => Snapshot' = noted.undone[1]]_vars

\* the history and its index after a step, as the step left them
Newest == history'[Len(history')]
Current == history'[historyIndex' + 1]

\* C37: historyIndex is between -1 and the last index of the history and is -1
\* exactly when the history is empty; saveToHistory leaves it at the newest
\* entry, which holds the collections saved, with nothing left to redo, and a
\* redo right after it changes nothing; an undo or redo that replaces the
\* geometry or moves the index leaves the geometry of the snapshot at the index
HistoryIndexInRange ==
  /\ -1 <= historyIndex
  /\ historyIndex <= Len(history) - 1
  /\ historyIndex = -1 <=> history = <<>>
SaveLeavesNewest ==
  lastOp'.op = "saveToHistory" =>
    /\ historyIndex' = Len(history') - 1
    /\ Newest = Snapshot
    /\ Len(history') <= historyIndex + 2
    /\ \A i \in 1..(Len(history') - 1) :
         history'[i] = history[i + (historyIndex + 2 - Len(history'))]
RedoAfterSaveDoesNothing ==
  (lastOp.op = "saveToHistory" /\ lastOp'.op = "redo") => UNCHANGED <<geom, hist>>
StepLeavesCurrent ==
  (lastOp'.op \in {"undo", "redo"} /\ (geom' # geom \/ historyIndex' # historyIndex))
    => Snapshot' = Current
HistoryIndexIsSound ==
  /\ HistoryIndexInRange
  /\ [][SaveLeavesNewest /\ RedoAfterSaveDoesNothing /\ StepLeavesCurrent]_vars
\* an undo has stepped back from the live state and a redo has gone forward again
SteppedBackAndForth ==
  /\ lastOp.op = "redo"
  /\ historyIndex >= 1
  /\ historyIndex < Len(history) - 1
  /\ Snapshot = history[historyIndex + 1]

\* C39: the selection has no type when it is empty
EmptySelectionHasNoType == selectedIds = {} => selectedType = "null"

\* C40: while a line is being drawn from a vertex, the vertex is in the store
DrawStartInStore ==
  (isDrawing /\ drawStartVertexId # NULL) => Has(vertices, drawStartVertexId)

\* the square with one diagonal is drawn: the session has added its five edges
SquareComplete ==
  /\ plan = <<>>
  /\ free = 0
  /\ FourAt(<<P1, P2, P3, P4>>)
  /\ \A pair \in SquareEdges : \E i \in DOMAIN edges : Joins(edges[i], pair[1], pair[2])
\* the faces of the store, each as the set of its boundary vertices
FacesDrawn == {BoundaryVertices(edges, faces[i]) : i \in DOMAIN faces}
TwoTriangles == {{V(1), V(2), V(4)}, {V(2), V(3), V(4)}}

\* C38: in whatever order the four sides of the square and its diagonal are
\* added, the faces at the end are the same, the two triangles at the diagonal
FacesIndependentOfOrder == SquareComplete => FacesDrawn = TwoTriangles

====
